---- MODULE Spec2Model ----
(***************************************************************************)
(* Verification model of ryuk.ai's tracking / recognition / gating core.   *)
(*                                                                         *)
(*   SpecStore : components/face_tracker.py, FaceTracker + FaceTrack       *)
(*               (update is modelled one detection per step, in the order  *)
(*               of the for-loop at face_tracker.py:82).                   *)
(*   SpecTrack : one FaceTrack of a FaceTracker, its embedding history     *)
(*               and avg_embedding over many appends.                      *)
(*   SpecSched : one camera, ui/dashboard.py starting and stopping its     *)
(*               sessions, components/video_worker.py's run loop.          *)
(*   SpecRace  : two cameras showing one identity, their run loops         *)
(*               interleaved statement by statement.                       *)
(*   SpecGate  : one run loop over 125 seconds, the gating block of        *)
(*               video_worker.py:181-200 with core/watchdog_indexer.py's   *)
(*               log_activity.                                             *)
(*   SpecIndex : core/watchdog_indexer.py, the registry operations of the  *)
(*               GUI thread against a query of a worker thread.            *)
(*   SpecQuery : recognize_face over registries of up to three profiles.   *)
(*   SpecCycle : one camera that stays connected, one face or two in       *)
(*               front of it, the histories of the run loop kept.          *)
(*   SpecFault : the run loop with a detector, an index or a Redis that    *)
(*               raises.                                                   *)
(*   SpecReload: a re-enrolment through submit_to_faiss under a running    *)
(*               camera, the index-updated signal and reload_index.        *)
(*   SpecStop  : SpecSched with the histories kept: what stop() leaves.    *)
(*   SpecLock  : two enrolled people of one name in front of one camera.   *)
(*   SpecMutate: enroll_face in an EnrollmentWorker thread against         *)
(*               delete_profile in the GUI thread.                         *)
(*   SpecCache : one camera, one person whose embedding changes between    *)
(*               inference jobs: the recognition cache against the index.  *)
(*   SpecAlert : enrolled people of every threat level and a stranger in   *)
(*               front of one camera.                                      *)
(*   SpecLive  : one camera's session under fair scheduling of its thread: *)
(*               what stop() leads to.                                     *)
(*                                                                         *)
(* Units.  Time is counted in whole seconds.  Centroids are kept doubled   *)
(* (x1+x2, y1+y2) so that the halves of face_tracker.py:84-85 stay         *)
(* integers; distances are compared squared, in the doubled coordinates,   *)
(* i.e. dist < d  <=>  Dist2x4 < 4*d*d.                                    *)
(***************************************************************************)
EXTENDS Integers, Sequences, FiniteSets, TLC

\* ------------------------------------------------------------------ config.py
FACE_MAX_INACTIVE_S == 2
FACE_TRACK_MAX_DIST == 150
FACE_TRACK_HISTORY  == 5
LOG_COOLDOWN_S      == 120
CAM_LOC_TTL_S       == 3600

\* ------------------------------------------------------------------ literals of
\* components/video_worker.py and core/server.py
INFERENCE_THROTTLE    == 4     \* self.inference_throttle
WORKER_TRACK_TTL_S    == 2     \* now - t['last_seen'] < 2.0
WORKER_TRACK_RADIUS   == 150   \* min_dist = 150
RECOGNITION_PCT       == 45    \* threshold=0.45, in hundredths
FACE_CACHE_TTL        == 15    \* cache.set(cache_key, ..., ex=15)
LOG_LOCK_TTL_S        == 30    \* cache.set(log_lock_key, "1", ex=30)
ALERT_LOCK_TTL_S      == 10    \* cache.set(alert_lock_key, "1", ex=10)
INACTIVE_AFTER_HALF_S == 3     \* time.time() - last_frame_time > 1.5, in half seconds
FRAME_TTL_S           == 2     \* cache.set(f"stream:{client_id}:frame", data, ex=2)

\* ------------------------------------------------------------------ bounds
MaxTime  == 3      \* the clock stops advancing here
MaxCalls == 3      \* update() calls per behaviour
MaxDet   == 3      \* detections per behaviour, all update() calls together
MaxAppends == 11   \* SpecTrack: embeddings given to one track, its creation included
MaxConnects == 2   \* camera connections per behaviour
MaxSchedClock == 2 \* SpecSched: the clock stops advancing here
MaxGateClock == 125 \* SpecGate: the clock stops advancing here
MaxRaceClock == 10 \* SpecRace: the clock stops advancing here
MaxOps == 2        \* SpecIndex: registry operations per behaviour

\* ------------------------------------------------------------------ inputs
\* Detector outputs (face.bbox at the detector's resolution, face.embedding).
FaceA == [bbox |-> <<80, 80, 120, 120>>,   embedding |-> <<1, 0>>]  \* centroid (100,100)
FaceB == [bbox |-> <<90, 85, 130, 125>>,   embedding |-> <<0, 1>>]  \* centroid (110,105)
FaceC == [bbox |-> <<230, 230, 270, 270>>, embedding |-> <<1, 0>>]  \* centroid (250,250)
FaceD == [bbox |-> <<230, 80, 270, 120>>,  embedding |-> <<0, 1>>]  \* centroid (250,100): 150 from FaceA
FaceE == [bbox |-> <<155, 80, 195, 120>>,  embedding |-> <<1, 0>>]  \* centroid (175,100): 75 from A and D
FaceQ == [bbox |-> <<235, 80, 275, 120>>,  embedding |-> <<0, 1>>]  \* centroid (255,100): 155 from A, 145.1 from B
FaceH == [bbox |-> <<53, 53, 80, 80>>,     embedding |-> <<0, 1>>]  \* at inf_scale 2/3: centroid (99.5,99.5)
\* SpecStore draws the detections of a call from StoreFaces; SpecFrames draws a
\* frame (its one detection and the inf_scale of the call) from FrameInputs.
StoreFaces == {FaceA, FaceB, FaceQ}
FrameInputs ==
  {<<f, <<1, 1>>>> : f \in {FaceA, FaceB, FaceC, FaceD, FaceE}} \cup {<<FaceH, <<2, 3>>>>}

\* inf_scale as a fraction <<numerator, denominator>>.
StoreScales == {<<1, 1>>}

ConfiguredTimeouts == {2, 3}

\* face.embedding: two coordinates stand for the 512.
Embeddings == {<<1, 0>>, <<0, 1>>}
EmbDim == {1, 2}

RECURSIVE SeqsUpTo(_, _)
SeqsUpTo(S, n) ==
  IF n = 0 THEN {<<>>}
  ELSE LET shorter == SeqsUpTo(S, n - 1)
       IN  shorter \cup {Append(s, x) : s \in {t \in shorter : Len(t) = n - 1}, x \in S}

VARIABLES
  tracks,        \* FaceTracker._tracks : track id -> FaceTrack
  id_counter,    \* FaceTracker._id_counter
  max_dist,      \* FaceTracker._max_dist
  max_inactive,  \* FaceTracker._max_inactive
  now,           \* time.time()
  pc,            \* "idle", or "update" while update() runs its for-loop
  pending,       \* update(): the faces not yet iterated
  inf_scale,     \* update(): its inf_scale argument
  used_ids,      \* update(): used_ids
  parsed,        \* update(): parsed (the returned bindings)
  last,          \* history: the operation that ran last and the state it started from
  issued,        \* history: every track id allocated, in allocation order
  frames,        \* history: one record per update() call, kept when keep_frames
  keep_frames,   \* history: whether the per-frame histories are kept
  ncalls,        \* history: number of update() calls started
  ndet,          \* history: number of detections handed to update()
  \* ---- SpecTrack
  one_track,     \* a FaceTracker._tracks holding the one track under study
  appended,      \* history: every embedding given to that track, oldest first
  avg_out,       \* the value get_avg_embedding returned last
  avg_at,        \* history: Len(appended) when avg_out was returned
  \* ---- the stream workers
  clock,         \* time.time(), and the clock of Redis
  redis,         \* the Redis database: key -> [val, exp]
  online,        \* the cameras whose websocket is open
  connects,      \* history: number of camera connections so far
  new_stream_signals, \* core/state.py:49, the deque of client ids
  active_sessions,    \* DashboardWindow.active_sessions: client id -> thread
  thr,           \* the VideoProcessor threads ever started, by thread number
  inactive_q,    \* stream_inactive signals queued for the GUI thread
  gui_wait,      \* the thread VideoProcessor.stop is waiting for, or 0
  effects,       \* history: (kind, identity, source) -> times of its last two executions
  last_gate,     \* history: the gated call that finished last
  \* ---- the recognition index
  faiss,         \* WatchdogIndexer: [index |-> _faiss_index, mapping |-> _faiss_mapping]
  profiles,      \* the `profiles` collection of MongoDB, in natural order
  db_ok,         \* WatchdogIndexer._db is not None
  gui,           \* the GUI thread inside enroll_face / update_profile / delete_profile
  qry,           \* a VideoProcessor thread inside recognize_face
  gen,           \* history: the rebuilds that wrote _faiss_index and _faiss_mapping,
                 \* and the documents the last finished rebuild had read
  nops,          \* history: number of registry operations started
  enr            \* an EnrollmentWorker thread inside enroll_face

storeVars == <<tracks, id_counter, max_dist, max_inactive, now, pc, pending,
               inf_scale, used_ids, parsed, last, issued, frames, keep_frames, ncalls, ndet>>

trackVars == <<one_track, appended, avg_out, avg_at>>

workVars == <<clock, redis, online, connects, new_stream_signals, active_sessions,
              thr, inactive_q, gui_wait, effects, last_gate>>

indexVars == <<faiss, profiles, db_ok, gui, qry, gen, nops, enr>>

vars == <<storeVars, trackVars, workVars, indexVars>>

\* What the operations of one component leave alone.
notStore == <<trackVars, workVars, indexVars>>
notTrack == <<storeVars, workVars, indexVars>>
notWork == <<storeVars, trackVars, indexVars>>
notIndex == <<storeVars, trackVars, workVars>>

\* ------------------------------------------------------------------ FaceTrack
\* face_tracker.py:83  bbox = (face.bbox / inf_scale).astype(int)
ScaleBBox(bbox, scale) ==
  [i \in 1..4 |-> (bbox[i] * scale[2]) \div scale[1]]

\* face_tracker.py:84-85, doubled.
Centroid2(bbox) == <<bbox[1] + bbox[3], bbox[2] + bbox[4]>>

\* face_tracker.py:100  np.linalg.norm(centroid - track.centroid), squared, x4.
Dist2x4(c, d) == (c[1] - d[1]) * (c[1] - d[1]) + (c[2] - d[2]) * (c[2] - d[2])

Thr2x4(d) == 4 * d * d

RECURSIVE Pow10(_)
Pow10(k) == IF k = 0 THEN 1 ELSE 10 * Pow10(k - 1)

DequeAppendUnbounded(h, e) == Append(h, e)

DequeAppendDropsNewest(h, e) ==
  IF Len(h) >= FACE_TRACK_HISTORY THEN Append(SubSeq(h, 1, Len(h) - 1), e) ELSE Append(h, e)

\* deque(..., maxlen=FACE_TRACK_HISTORY).append
DequeAppend(h, e) ==
  IF Len(h) >= FACE_TRACK_HISTORY THEN Append(Tail(h), e) ELSE Append(h, e)

\* The fraction num / 10^exp with the smallest exponent.
RECURSIVE Lowest(_, _)
Lowest(num, exp) ==
  IF exp > 0 /\ \A i \in 1..4 : num[i] % 10 = 0
  THEN Lowest([i \in 1..4 |-> num[i] \div 10], exp - 1)
  ELSE [num |-> num, exp |-> exp]

RECURSIVE SumAt(_, _)
SumAt(h, d) == IF h = <<>> THEN 0 ELSE Head(h)[d] + SumAt(Tail(h), d)

\* FaceTrack.avg_embedding: np.mean(self.embedding_history, axis=0), as the exact
\* fraction sum[d] / n in every coordinate d.
AvgEmbedding(h) == [sum |-> [d \in EmbDim |-> SumAt(h, d)], n |-> Len(h)]

\* FaceTrack.__init__.  smoothed_bbox is the exact rational num / 10^exp.
NewFaceTrack(track_id, centroid, embedding, bbox, t) ==
  [track_id          |-> track_id,
   centroid          |-> centroid,
   last_seen         |-> t,
   embedding_history |-> <<embedding>>,
   id_cache          |-> "None",
   smoothed_bbox     |-> [num |-> bbox, exp |-> 0]]

\* FaceTrack.update: alpha = 0.3, smoothed = 0.3*bbox + 0.7*smoothed.
FaceTrackUpdate(trk, centroid, embedding, bbox, t) ==
  [trk EXCEPT
     !.centroid          = centroid,
     !.last_seen         = t,
     !.embedding_history = DequeAppend(@, embedding),
     !.smoothed_bbox     =
        Lowest([i \in 1..4 |-> 3 * bbox[i] * Pow10(@.exp) + 7 * @.num[i]], @.exp + 1)]

\* FaceTrack.is_stale
IsStale(trk, t) == (t - trk.last_seen) > FACE_MAX_INACTIVE_S

\* ------------------------------------------------------------------ FaceTracker
\* face_tracker.py:95-103: the scan for the nearest unused track.  dict order is
\* insertion order, i.e. ascending track id; `dist < nearest_dist` is strict, so
\* of several tracks at the minimum distance the first one met is kept.
CandidatesAnyDistance(trs, used, centroid, md) ==
  {tid \in DOMAIN trs : tid \notin used}

Candidates(trs, used, centroid, md) ==
  {tid \in DOMAIN trs : tid \notin used /\ Dist2x4(centroid, trs[tid].centroid) < Thr2x4(md)}

MatchedIdLastInRange(trs, used, centroid, md) ==
  LET cand == Candidates(trs, used, centroid, md)
  IN  IF cand = {} THEN 0 ELSE CHOOSE tid \in cand : \A o \in cand : o <= tid

MatchedIdLatestOfNearest(trs, used, centroid, md) ==
  LET cand == Candidates(trs, used, centroid, md)
  IN  IF cand = {} THEN 0
      ELSE CHOOSE tid \in cand :
             \A o \in cand :
               \/ Dist2x4(centroid, trs[tid].centroid) < Dist2x4(centroid, trs[o].centroid)
               \/ /\ Dist2x4(centroid, trs[tid].centroid) = Dist2x4(centroid, trs[o].centroid)
                  /\ tid >= o

MatchedId(trs, used, centroid, md) ==
  LET cand == Candidates(trs, used, centroid, md)
  IN  IF cand = {} THEN 0
      ELSE CHOOSE tid \in cand :
             \A o \in cand :
               \/ Dist2x4(centroid, trs[tid].centroid) < Dist2x4(centroid, trs[o].centroid)
               \/ /\ Dist2x4(centroid, trs[tid].centroid) = Dist2x4(centroid, trs[o].centroid)
                  /\ tid <= o

\* face_tracker.py:79: used_ids = set(), a fresh local of every call.
UsedIdsOfLastCall(previous) == previous

InitialUsedIds(previous) == {}

\* face_tracker.py:109-110: self._id_counter += 1; matched_id = self._id_counter
NextTrackIdFromSize(counter, trs) == Cardinality(DOMAIN trs) + 1

NextTrackId(counter, trs) == counter + 1

Restrict(f, S) == [x \in S |-> f[x]]

PutTrackRefreshingAll(trs, tid, trk) ==
  [k \in DOMAIN trs \cup {tid} |->
     IF k = tid THEN trk ELSE [trs[k] EXCEPT !.last_seen = trk.last_seen]]

\* self._tracks[matched_id].update(...) and self._tracks[matched_id] = FaceTrack(...)
\* (face_tracker.py:107, 111): one entry of the dict is written.
PutTrack(trs, tid, trk) ==
  [k \in DOMAIN trs \cup {tid} |-> IF k = tid THEN trk ELSE trs[k]]

CentroidsOf(trs) == [tid \in DOMAIN trs |-> trs[tid].centroid]

\* History record of one operation: its name and the state it started from.
OpRecord(op, centroid) ==
  [op |-> op, tracks |-> tracks, id_counter |-> id_counter, used_ids |-> used_ids,
   centroid |-> centroid, now |-> now]

\* The operations whose starting state no property needs carry an empty one.
Marker(op) ==
  [op |-> op, tracks |-> <<>>, id_counter |-> 0, used_ids |-> {},
   centroid |-> <<0, 0>>, now |-> 0]

StoreInit ==
  /\ tracks = <<>>
  /\ id_counter = 0
  /\ max_dist = FACE_TRACK_MAX_DIST
  /\ max_inactive \in ConfiguredTimeouts
  /\ now = 0
  /\ pc = "idle"
  /\ pending = <<>>
  /\ inf_scale = <<1, 1>>
  /\ used_ids = {}
  /\ parsed = <<>>
  /\ last = Marker("init")
  /\ issued = <<>>
  /\ frames = <<>>
  /\ keep_frames \in BOOLEAN
  /\ ncalls = 0
  /\ ndet = 0

\* update(faces, inf_scale): entry, face_tracker.py:79-80.
UpdateCall(faces, scale) ==
  /\ pc = "idle"
  /\ ncalls < MaxCalls
  /\ ndet + Len(faces) <= MaxDet
  /\ UNCHANGED notStore
  /\ ndet' = ndet + Len(faces)
  /\ pc' = "update"
  /\ pending' = faces
  /\ inf_scale' = scale
  /\ used_ids' = InitialUsedIds(used_ids)
  /\ parsed' = <<>>
  /\ ncalls' = ncalls + 1
  /\ last' = Marker("call")
  /\ frames' = IF keep_frames
                THEN Append(frames, [pre |-> CentroidsOf(tracks), pre_counter |-> id_counter,
                                     cents |-> <<>>, ids |-> <<>>, done |-> FALSE])
                ELSE frames
  /\ UNCHANGED <<tracks, id_counter, max_dist, max_inactive, now, issued, keep_frames>>

\* One iteration of the for-loop, face_tracker.py:82-122.
UpdateStep ==
  /\ UNCHANGED notStore
  /\ pc = "update"
  /\ pending # <<>>
  /\ LET face     == Head(pending)
         bbox     == ScaleBBox(face.bbox, inf_scale)
         centroid == Centroid2(bbox)
         m        == MatchedId(tracks, used_ids, centroid, max_dist)
     IN  /\ IF m # 0
            THEN /\ used_ids' = used_ids \cup {m}
                 /\ tracks' = PutTrack(tracks, m,
                                 FaceTrackUpdate(tracks[m], centroid, face.embedding, bbox, now))
                 /\ parsed' = Append(parsed, [track_id |-> m, bbox |-> bbox])
                 /\ UNCHANGED <<id_counter, issued>>
            ELSE /\ id_counter' = NextTrackId(id_counter, tracks)
                 /\ tracks' = PutTrack(tracks, id_counter',
                                 NewFaceTrack(id_counter', centroid, face.embedding, bbox, now))
                 /\ parsed' = Append(parsed, [track_id |-> id_counter', bbox |-> bbox])
                 /\ issued' = Append(issued, id_counter')
                 /\ UNCHANGED used_ids
         /\ last' = OpRecord("step", centroid)
         /\ frames' = IF keep_frames
                       THEN [frames EXCEPT ![Len(frames)] =
                               [@ EXCEPT !.cents = Append(@, centroid),
                                         !.ids   = Append(@, IF m # 0 THEN m ELSE id_counter')]]
                       ELSE frames
  /\ pending' = Tail(pending)
  /\ UNCHANGED <<max_dist, max_inactive, now, pc, inf_scale, keep_frames, ncalls, ndet>>

\* update(): `return parsed`, face_tracker.py:124.
UpdateReturn ==
  /\ UNCHANGED notStore
  /\ pc = "update"
  /\ pending = <<>>
  /\ pc' = "idle"
  /\ frames' = IF keep_frames
                THEN [frames EXCEPT ![Len(frames)] = [@ EXCEPT !.done = TRUE]]
                ELSE frames
  /\ last' = Marker("return")
  /\ UNCHANGED <<tracks, id_counter, max_dist, max_inactive, now, pending, inf_scale,
                 used_ids, parsed, issued, keep_frames, ncalls, ndet>>

\* prune_stale(), face_tracker.py:126-130.
PruneStale ==
  /\ UNCHANGED notStore
  /\ pc = "idle"
  /\ tracks' = Restrict(tracks, {tid \in DOMAIN tracks : ~IsStale(tracks[tid], now)})
  /\ last' = OpRecord("prune", <<0, 0>>)
  /\ UNCHANGED <<id_counter, max_dist, max_inactive, now, pc, pending, inf_scale,
                 used_ids, parsed, issued, frames, keep_frames, ncalls, ndet>>

\* clear(), face_tracker.py:136-137.
Clear ==
  /\ UNCHANGED notStore
  /\ pc = "idle"
  /\ tracks' = <<>>
  /\ last' = Marker("clear")
  /\ UNCHANGED <<id_counter, max_dist, max_inactive, now, pc, pending, inf_scale,
                 used_ids, parsed, issued, frames, keep_frames, ncalls, ndet>>

\* The wall clock advances (between any two statements).
Tick ==
  /\ UNCHANGED notStore
  /\ pc = "idle"
  /\ now < MaxTime
  /\ now' = now + 1
  /\ UNCHANGED <<tracks, id_counter, max_dist, max_inactive, pc, pending, inf_scale,
                 used_ids, parsed, last, issued, frames, keep_frames, ncalls, ndet>>

StoreNext ==
  \/ \E faces \in SeqsUpTo(StoreFaces, MaxDet), scale \in StoreScales : UpdateCall(faces, scale)
  \/ UpdateStep
  \/ UpdateReturn
  \/ PruneStale
  \/ Clear
  \/ Tick

\* FaceTracker.get_avg_embedding, face_tracker.py:132-134.
GetAvgEmbedding(trs, track_id) ==
  IF track_id \in DOMAIN trs THEN AvgEmbedding(trs[track_id].embedding_history)
  ELSE "None"

\* ------------------------------------------------------------------ SpecTrack
\* One track, created by FaceTrack.__init__ from a first embedding.
TrackInit ==
  \E e \in Embeddings :
    /\ one_track = <<NewFaceTrack(1, <<0, 0>>, e, <<0, 0, 0, 0>>, 0)>>
    /\ appended = <<e>>
    /\ avg_out = "None"
    /\ avg_at = 0

\* FaceTrack.update with a further embedding (face_tracker.py:107, 37-44).
TrackAppend(e) ==
  /\ UNCHANGED notTrack
  /\ Len(appended) < MaxAppends
  /\ one_track' = [one_track EXCEPT ![1] = FaceTrackUpdate(@, <<0, 0>>, e, <<0, 0, 0, 0>>, 0)]
  /\ appended' = Append(appended, e)
  /\ UNCHANGED <<avg_out, avg_at>>

\* get_avg_embedding(1)
TrackQuery ==
  /\ UNCHANGED notTrack
  /\ avg_out' = GetAvgEmbedding(one_track, 1)
  /\ avg_at' = Len(appended)
  /\ UNCHANGED <<one_track, appended>>

TrackNext ==
  \/ \E e \in Embeddings : TrackAppend(e)
  \/ TrackQuery

\* ------------------------------------------------------------------
\* The stream workers: core/server.py (camera handler), ui/dashboard.py
\* (stream sessions), components/video_worker.py (VideoProcessor.run) and
\* core/watchdog_indexer.py (recognize_face, log_activity).
\*
\* VideoProcessor.__init__ (video_worker.py:39-40) connects its reload_index to
\* `new_stream_signals.faiss_updated`; core/state.py:49 binds that name to a
\* deque.  The processors of this model are the ones whose construction went
\* through, with reload_index wired to the index-updated signal as the comment
\* at video_worker.py:38 intends.
\* ------------------------------------------------------------------
Sources == {"camA", "camB"}

\* faiss_mapping rows (watchdog_indexer.py:110-117), the fields the worker reads.
P1 == [aadhar |-> "1111", name |-> "Ann", threat_level |-> "High"]
P2 == [aadhar |-> "2222", name |-> "Bob", threat_level |-> "Low"]
\* `meta = None`, with the defaults of video_worker.py:159-160.
NoMeta == [aadhar |-> "", name |-> "Unknown", threat_level |-> "Low"]

\* What face_app.get returns for a frame (video_worker.py:114).
SchedScenes == {<<FaceA>>}
GateScenes == {<<FaceA>>}

\* What a camera sends: a JPEG, bytes imdecode returns None for, bytes it raises on.
FrameKinds == {"ok", "none", "raise"}
SchedFrameKinds == {"ok"}

\* ---- The recognition index (core/watchdog_indexer.py)
\* A document of the `profiles` collection, the fields update_index reads
\* that reach the worker (watchdog_indexer.py:111-115).  Embeddings are vectors
\* of two non-negative integer components.
ProfileDoc(meta, embedding) ==
  [aadhar |-> meta.aadhar, name |-> meta.name, threat_level |-> meta.threat_level,
   embedding |-> embedding]

MetaOfDefaultThreat(doc) ==
  [aadhar |-> doc.aadhar, name |-> doc.name, threat_level |-> "Low"]

\* The row of _faiss_mapping made from a document (watchdog_indexer.py:112-119).
MetaOf(doc) ==
  [aadhar |-> doc.aadhar, name |-> doc.name, threat_level |-> doc.threat_level]

Dot(a, b) == a[1] * b[1] + a[2] * b[2]

RECURSIVE GCD(_, _)
GCD(a, b) == IF b = 0 THEN a ELSE GCD(b, a % b)

UnitRaw(v) == [v |-> v, n2 |-> 1]

\* v / ||v|| (watchdog_indexer.py:123-125 for a row, 187-189 for a query), kept
\* exact as [v, n2]: the unit vector is v / sqrt(n2), v in lowest terms.  A zero
\* row has its norm replaced by 1.0, a zero query is left as it is.
Unit(v) ==
  IF Dot(v, v) = 0 THEN [v |-> v, n2 |-> 1]
  ELSE LET g == GCD(v[1], v[2])
           w == <<v[1] \div g, v[2] \div g>>
       IN  [v |-> w, n2 |-> Dot(w, w)]

SimAtLeast(q, a, pct) ==
  \/ pct <= 0
  \/ Dot(q.v, a.v) * Dot(q.v, a.v) * 10000 >= pct * pct * q.n2 * a.n2

\* sims[0][0] > threshold (watchdog_indexer.py:192) for the inner product of the
\* unit vectors q and a, threshold = pct / 100.  Inner products are >= 0 here.
SimAbove(q, a, pct) ==
  \/ pct < 0
  \/ Dot(q.v, a.v) * Dot(q.v, a.v) * 10000 > pct * pct * q.n2 * a.n2

\* <q, a> > <q, b> for unit vectors.
SimGreater(q, a, b) ==
  Dot(q.v, a.v) * Dot(q.v, a.v) * b.n2 > Dot(q.v, b.v) * Dot(q.v, b.v) * a.n2

NearestOrLast(rows, q) ==
  CHOOSE i \in 1..Len(rows) :
    /\ \A j \in 1..Len(rows) : ~SimGreater(q, rows[j], rows[i])
    /\ \A j \in (i + 1)..Len(rows) : SimGreater(q, rows[i], rows[j])

\* IndexFlatIP.search(query, k=1) on a non-empty index: the row of the
\* greatest inner product, the first of equally good rows.
Nearest(rows, q) ==
  CHOOSE i \in 1..Len(rows) :
    /\ \A j \in 1..Len(rows) : ~SimGreater(q, rows[j], rows[i])
    /\ \A j \in 1..(i - 1) : SimGreater(q, rows[i], rows[j])

\* _faiss_index = None (watchdog_indexer.py:39, 105)
NoIndex == [built |-> FALSE, rows |-> <<>>]

EmptySnapshot == [index |-> NoIndex, mapping |-> <<>>]

\* idx of watchdog_indexer.py:122-128: one unit row per document.
BuildIndex(identities) ==
  [built |-> TRUE,
   rows |-> [i \in 1..Len(identities) |-> Unit(identities[i].embedding)]]

BuildMappingReversed(identities) ==
  [i \in 1..Len(identities) |-> MetaOf(identities[Len(identities) + 1 - i])]

\* mapping of watchdog_indexer.py:109-119
BuildMapping(identities) == [i \in 1..Len(identities) |-> MetaOf(identities[i])]

\* What update_index leaves behind once it has read `identities`
\* (watchdog_indexer.py:104-131).
Snapshot(identities) ==
  IF identities = <<>> THEN EmptySnapshot
  ELSE [index |-> BuildIndex(identities), mapping |-> BuildMapping(identities)]

\* The profiles the stream workers are run against, one row per profile.
EnrolledProfiles == <<ProfileDoc(P1, <<1, 0>>), ProfileDoc(P2, <<0, 1>>)>>

EnrolledIndex == Snapshot(EnrolledProfiles)

\* WatchdogIndexer.recognize_face(embedding, threshold), watchdog_indexer.py:182-194,
\* run against one snapshot fa; NoMeta stands for None.
RecognizeFace(fa, q, pct) ==
  IF ~fa.index.built \/ Len(fa.index.rows) = 0 THEN NoMeta
  ELSE LET query == Unit(q)
           best == Nearest(fa.index.rows, query)
       IN  IF SimAbove(query, fa.index.rows[best], pct) THEN fa.mapping[best] ELSE NoMeta

\* ---- Redis (core/state.py: cache and cache_str are two clients of one database)
\* A store maps the keys it holds to [val, exp]: the value and the time the key
\* expires at.  Keys are tuples, <<prefix, part, ...>> for "prefix:part:...".
Exists(store, key, t) == key \in DOMAIN store /\ t < store[key].exp

\* SET key val EX ttl / SETEX key ttl val at time t
RedisSet(store, key, val, ttl, t) ==
  [k \in DOMAIN store \cup {key} |->
     IF k = key THEN [val |-> val, exp |-> t + ttl] ELSE store[k]]

RedisDelete(store, key) == [k \in DOMAIN store \ {key} |-> store[k]]

\* Redis drops the keys whose time has come.
Expire(store, t) == [k \in {x \in DOMAIN store : t < store[x].exp} |-> store[k]]

FrameKey(c) == <<"stream", c, "frame">>
FaceCacheKey(embedding) == <<"cache", "face", embedding>>
LogLockKey(aadhar, c) == <<"log_lock", aadhar, c>>
CooldownKey(aadhar, c) == <<"cooldown", "log", aadhar, c>>
CamLocKey(c) == <<"cache", "cam_loc", c>>
AlertLockKeyGlobal(name, c) == <<"alert_lock", name>>

\* video_worker.py:197
AlertLockKey(name, c) == <<"alert_lock", name, c>>

\* The gated effects, as (kind, identity, source); the identity is the
\* profile's aadhar, the unique key of the collection.
EffectKey(kind, who, c) == <<kind, who, c>>

\* ---- VideoProcessor
\* VideoProcessor.__init__ (video_worker.py:24-40) and the locals of run()
\* (video_worker.py:70-71).  pc is the statement the thread is at.
\* history fields, kept when keep_frames: `detected`, what face_app.get returned
\* to the cycle in progress; `complete`, the boxes it had returned to the cycle
\* that finished last; `rendered`, the records the drawing phase drew last.
\* `heard`, the number of the rebuild whose index-updated signal reload_index
\* handled last; `cycle_of`, the value of `heard` when the cycle in progress
\* began; `stop`, where the thread was when stop() set running to False ("job"
\* inside an inference job, "idle" outside) and "drawn" once the drawing phase
\* has run for that job.  exc names what raised the exception that ended
\* run(), "" while none has.
NewProcessor(c) ==
  [client |-> c, running |-> TRUE, pc |-> "top",
   frame_count |-> 0, is_active |-> FALSE, last_frame_time |-> 0, now |-> 0,
   tracks |-> <<>>, track_id_counter |-> 0, last_faces |-> <<>>,
   faces |-> <<>>, parsed_faces |-> <<>>, used_tracks |-> {},
   face |-> [bbox |-> <<0, 0, 0, 0>>, meta |-> NoMeta],
   call |-> [t |-> 0, prev |-> -1, ran |-> FALSE, failed |-> FALSE],
   detected |-> <<>>, complete |-> <<>>, rendered |-> <<>>, exc |-> "",
   heard |-> 0, cycle_of |-> 0, stop |-> "none"]

\* history: a field takes its new value only where histories are kept
Hist(new, old) == IF keep_frames THEN new ELSE old

\* A processor whose session is gone: the thread has ended and the object is
\* released with the session (dashboard.py:1018-1020).
Gone(th) == [NewProcessor(th.client) EXCEPT !.running = FALSE, !.pc = th.pc]

\* The statements of one inference job: detector run, track update,
\* recognition, gating (video_worker.py:101-211).
InferencePcs ==
  {"detect", "face", "log_gate", "log_activity", "log_insert", "log_cooldown",
   "log_lock_set", "alert_gate", "alert_publish", "alert_lock_set", "face_done"}

InFlight(c) == {t \in DOMAIN thr : thr[t].client = c /\ thr[t].pc \in InferencePcs}

\* The lock keys a thread has found absent and not yet set.
HeldKeys(th) ==
  (IF th.pc \in {"log_activity", "log_insert", "log_cooldown", "log_lock_set"}
   THEN {LogLockKey(th.face.meta.aadhar, th.client)} ELSE {})
  \cup
  (IF th.pc \in {"log_insert", "log_cooldown"}
   THEN {CooldownKey(th.face.meta.aadhar, th.client)} ELSE {})
  \cup
  (IF th.pc \in {"alert_publish", "alert_lock_set"}
   THEN {AlertLockKey(th.face.meta.name, th.client)} ELSE {})

\* history: the time of the last execution of an effect, -1 before the first
LastEffect(e, key) == IF key \in DOMAIN e THEN e[key].last ELSE -1

RecordEffect(e, key, t) ==
  [k \in DOMAIN e \cup {key} |->
     IF k = key THEN [last |-> t, prev |-> LastEffect(e, key)] ELSE e[k]]

NoCall == [kind |-> "none", who |-> "", source |-> "", t |-> 0, prev |-> -1,
           ran |-> FALSE, failed |-> FALSE]

CallRecord(kind, who, c, call) ==
  [kind |-> kind, who |-> who, source |-> c, t |-> call.t, prev |-> call.prev,
   ran |-> call.ran, failed |-> call.failed]

\* video_worker.py:99
LiveTracks(trs, t) ==
  Restrict(trs, {tid \in DOMAIN trs : t - trs[tid].last_seen < WORKER_TRACK_TTL_S})

WorkInit ==
  /\ clock = 0
  /\ redis = <<>>
  /\ online = {}
  /\ connects = 0
  /\ new_stream_signals = <<>>
  /\ active_sessions = <<>>
  /\ thr = <<>>
  /\ inactive_q = <<>>
  /\ gui_wait = 0
  /\ effects = <<>>
  /\ last_gate = NoCall

\* ---- core/server.py
\* _handle_camera up to its receive loop, server.py:56-74.
CameraConnect(c) ==
  /\ UNCHANGED notWork
  /\ c \notin online
  /\ connects < MaxConnects
  /\ online' = online \cup {c}
  /\ connects' = connects + 1
  /\ new_stream_signals' = Append(new_stream_signals, c)
  /\ UNCHANGED <<clock, redis, active_sessions, thr, inactive_q, gui_wait,
                 effects, last_gate>>

\* One round of the receive loop, server.py:77-78.
FramePush(c, kind) ==
  /\ UNCHANGED notWork
  /\ c \in online
  /\ redis' = RedisSet(redis, FrameKey(c), kind, FRAME_TTL_S, clock)
  /\ UNCHANGED <<clock, online, connects, new_stream_signals, active_sessions,
                 thr, inactive_q, gui_wait, effects, last_gate>>

\* WebSocketDisconnect and the finally block, server.py:79-88.
CameraDisconnect(c) ==
  /\ UNCHANGED notWork
  /\ c \in online
  /\ online' = online \ {c}
  /\ redis' = RedisDelete(redis, FrameKey(c))
  /\ UNCHANGED <<clock, connects, new_stream_signals, active_sessions,
                 thr, inactive_q, gui_wait, effects, last_gate>>

\* ---- ui/dashboard.py (the GUI thread; it runs one slot at a time and is
\* blocked while gui_wait names the thread QThread.wait() is waiting for)
\* dashboard.py:969
StartsAlways(c, sessions) == TRUE

CanStartSession(c, sessions) == c \notin DOMAIN sessions

\* One round of the while-loop of check_for_new_streams (dashboard.py:967-970),
\* start_new_stream_session included (dashboard.py:972-1003).
CheckForNewStreams ==
  /\ UNCHANGED notWork
  /\ gui_wait = 0
  /\ new_stream_signals # <<>>
  /\ LET c == Head(new_stream_signals)
         t == Len(thr) + 1
     IN  /\ new_stream_signals' = Tail(new_stream_signals)
         /\ IF CanStartSession(c, active_sessions)
            THEN /\ thr' = Append(thr, NewProcessor(c))
                 /\ active_sessions' =
                      [k \in DOMAIN active_sessions \cup {c} |->
                         IF k = c THEN t ELSE active_sessions[k]]
            ELSE UNCHANGED <<thr, active_sessions>>
  /\ UNCHANGED <<clock, redis, online, connects, inactive_q, gui_wait,
                 effects, last_gate>>

\* stop_stream_session (dashboard.py:1014-1019), the slot of stream_inactive,
\* up to the wait() of VideoProcessor.stop (video_worker.py:258-260).
StopStreamSession ==
  /\ UNCHANGED notWork
  /\ gui_wait = 0
  /\ inactive_q # <<>>
  /\ LET c == Head(inactive_q)
     IN  /\ inactive_q' = Tail(inactive_q)
         /\ IF c \in DOMAIN active_sessions
            THEN /\ active_sessions' = Restrict(active_sessions, DOMAIN active_sessions \ {c})
                 /\ thr' = [thr EXCEPT
                              ![active_sessions[c]].running = FALSE,
                              ![active_sessions[c]].stop =
                                 Hist(IF thr[active_sessions[c]].pc \in InferencePcs
                                      THEN "job" ELSE "idle", @)]
                 /\ gui_wait' = active_sessions[c]
            ELSE UNCHANGED <<active_sessions, thr, gui_wait>>
  /\ UNCHANGED <<clock, redis, online, connects, new_stream_signals,
                 effects, last_gate>>

\* QThread.wait() returns once run() has returned.
WaitOver(th) == th.pc = "exited"

\* VideoProcessor.stop returns (video_worker.py:260), and the slot after it.
StopReturns ==
  /\ UNCHANGED notWork
  /\ gui_wait # 0
  /\ WaitOver(thr[gui_wait])
  /\ gui_wait' = 0
  /\ thr' = [thr EXCEPT ![gui_wait] = Gone(thr[gui_wait])]
  /\ UNCHANGED <<clock, redis, online, connects, new_stream_signals,
                 active_sessions, inactive_q, effects, last_gate>>

\* The processors after reload_index (video_worker.py:42-44) has run for every
\* session's processor.
Reloaded(threads, sessions) ==
  [t \in DOMAIN threads |->
     IF \E c \in DOMAIN sessions : sessions[c] = t
     THEN [threads[t] EXCEPT !.last_faces = <<>>, !.heard = Hist(gen.mapping, @)]
     ELSE threads[t]]

\* The index-updated signal reaches reload_index of every session's processor;
\* the slot runs on the GUI thread.
ReloadIndex ==
  /\ UNCHANGED notWork
  /\ gui_wait = 0
  /\ thr' = Reloaded(thr, active_sessions)
  /\ UNCHANGED <<clock, redis, online, connects, new_stream_signals,
                 active_sessions, inactive_q, gui_wait, effects, last_gate>>

\* The numbers threads can have: every connection starts at most one.
ThreadIds == 1..MaxConnects

\* ---- VideoProcessor.run, one action per stretch of statements between two
\* accesses to what the threads share (Redis, the database, the clock).

RunsInferenceAlways(frame_count) == TRUE

\* video_worker.py:101
RunsInference(frame_count) == frame_count % INFERENCE_THROTTLE = 0

LoopGoesOnRegardless(running) == TRUE

\* video_worker.py:74: while self.running
LoopGoesOn(running) == running

GoesInactiveWhenSilent(is_active, last_frame_time, t) ==
  2 * (t - last_frame_time) > INACTIVE_AFTER_HALF_S

\* video_worker.py:252: if is_active and (time.time() - last_frame_time > 1.5)
GoesInactive(is_active, last_frame_time, t) ==
  is_active /\ 2 * (t - last_frame_time) > INACTIVE_AFTER_HALF_S

\* One round of `while self.running` (video_worker.py:74-256) up to the call
\* of the detector: a round that does not run inference is over in this one
\* step, drawing and msleep included.  frame_count is kept modulo the throttle;
\* a local that is not read again before it is assigned stays at its first value.
LoopTop(t) ==
  /\ UNCHANGED notWork
  /\ t \in DOMAIN thr
  /\ thr[t].pc = "top"
  /\ LET th == thr[t]
         key == FrameKey(th.client)
     IN  IF ~LoopGoesOn(th.running)
         THEN /\ thr' = [thr EXCEPT ![t].pc = "exited"]
              /\ UNCHANGED inactive_q
         ELSE IF ~Exists(redis, key, clock)
         THEN IF GoesInactive(th.is_active, th.last_frame_time, clock)
              THEN /\ thr' = [thr EXCEPT ![t].is_active = FALSE, ![t].tracks = <<>>]
                   /\ inactive_q' = Append(inactive_q, th.client)
              ELSE UNCHANGED <<thr, inactive_q>>
         ELSE IF redis[key].val = "raise"
         THEN UNCHANGED <<thr, inactive_q>>
         ELSE IF redis[key].val = "none"
         THEN UNCHANGED <<thr, inactive_q>>
         ELSE LET count == (th.frame_count + 1) % INFERENCE_THROTTLE
              IN  /\ thr' = [thr EXCEPT ![t].last_frame_time = clock,
                                         ![t].is_active = TRUE,
                                         ![t].frame_count = count,
                                         ![t].now = IF RunsInference(count) THEN clock ELSE 0,
                                         ![t].tracks = LiveTracks(th.tracks, clock),
                                         ![t].pc = IF RunsInference(count) THEN "detect" ELSE "top",
                                         ![t].rendered = IF RunsInference(count) THEN @
                                                         ELSE Hist(th.last_faces, @),
                                         ![t].cycle_of = IF RunsInference(count)
                                                         THEN Hist(th.heard, @) ELSE @]
                  /\ UNCHANGED inactive_q
  /\ UNCHANGED <<clock, redis, online, connects, new_stream_signals,
                 active_sessions, gui_wait, effects, last_gate>>

\* face_app.get(inf_frame) and the two initialisations after it
\* (video_worker.py:114-117).
Detect(t, faces) ==
  /\ UNCHANGED notWork
  /\ t \in DOMAIN thr
  /\ thr[t].pc = "detect"
  /\ thr' = [thr EXCEPT ![t].faces = faces, ![t].parsed_faces = <<>>,
                         ![t].used_tracks = {}, ![t].pc = "face",
                         ![t].detected = Hist(faces, @)]
  /\ UNCHANGED <<clock, redis, online, connects, new_stream_signals,
                 active_sessions, inactive_q, gui_wait, effects, last_gate>>

\* The head of the for-loop body: tracking (video_worker.py:118-155) and
\* recognition through the face cache (video_worker.py:157-179).  Frames are
\* no larger than the inference size, inf_scale = 1.
TrackFace(t) ==
  /\ UNCHANGED notWork
  /\ t \in DOMAIN thr
  /\ thr[t].pc = "face"
  /\ thr[t].faces # <<>>
  /\ LET th == thr[t]
         face == Head(th.faces)
         bbox == ScaleBBox(face.bbox, <<1, 1>>)
         f_centroid == Centroid2(bbox)
         cache_key == FaceCacheKey(face.embedding)
         hit == Exists(redis, cache_key, clock)
     IN  \E found \in {MatchedId(th.tracks, th.used_tracks, f_centroid, WORKER_TRACK_RADIUS)} :
         \E track \in {IF found # 0
                        THEN [th.tracks[found] EXCEPT
                                !.centroid = f_centroid, !.last_seen = th.now,
                                !.history = DequeAppend(@, face.embedding)]
                        ELSE [history |-> <<face.embedding>>, centroid |-> f_centroid,
                              last_seen |-> th.now, id_cache |-> "None"]} :
         \E avg_emb \in {AvgEmbedding(track.history).sum} :
         \E identity \in {RecognizeFace(faiss, avg_emb, RECOGNITION_PCT)} :
           LET matched_id == IF found # 0 THEN found ELSE th.track_id_counter + 1
               meta == IF hit THEN redis[cache_key].val ELSE identity
           IN  /\ thr' = [thr EXCEPT
                            ![t].tracks = [k \in DOMAIN th.tracks \cup {matched_id} |->
                                             IF k = matched_id THEN track ELSE th.tracks[k]],
                            ![t].track_id_counter = IF found # 0 THEN @ ELSE @ + 1,
                            ![t].used_tracks = IF found # 0 THEN @ \cup {found} ELSE @,
                            ![t].face = [bbox |-> bbox, meta |-> meta],
                            ![t].pc = "log_gate"]
               /\ redis' = IF ~hit /\ identity # NoMeta
                           THEN RedisSet(redis, cache_key, identity, FACE_CACHE_TTL, clock)
                           ELSE redis
  /\ UNCHANGED <<clock, online, connects, new_stream_signals,
                 active_sessions, inactive_q, gui_wait, effects, last_gate>>

\* video_worker.py:182-185: the test of the log lock.
LogGate(t) ==
  /\ UNCHANGED notWork
  /\ t \in DOMAIN thr
  /\ thr[t].pc = "log_gate"
  /\ LET th == thr[t]
         aadhar == th.face.meta.aadhar
         call == [t |-> clock, prev |-> LastEffect(effects, EffectKey("log", aadhar, th.client)),
                  ran |-> FALSE, failed |-> FALSE]
     IN  IF aadhar = ""
         THEN /\ thr' = [thr EXCEPT ![t].pc = "alert_gate"]
              /\ UNCHANGED last_gate
         ELSE IF Exists(redis, LogLockKey(aadhar, th.client), clock)
         THEN /\ thr' = [thr EXCEPT ![t].pc = "alert_gate"]
              /\ last_gate' = CallRecord("log", aadhar, th.client, call)
         ELSE /\ thr' = [thr EXCEPT ![t].pc = "log_activity", ![t].call = call]
              /\ UNCHANGED last_gate
  /\ UNCHANGED <<clock, redis, online, connects, new_stream_signals,
                 active_sessions, inactive_q, gui_wait, effects>>

\* log_activity, watchdog_indexer.py:198-202 (the activity collection is there).
LogActivityCheck(t) ==
  /\ UNCHANGED notWork
  /\ t \in DOMAIN thr
  /\ thr[t].pc = "log_activity"
  /\ thr' = [thr EXCEPT ![t].pc =
               IF Exists(redis, CooldownKey(thr[t].face.meta.aadhar, thr[t].client), clock)
               THEN "log_lock_set" ELSE "log_insert"]
  /\ UNCHANGED <<clock, redis, online, connects, new_stream_signals,
                 active_sessions, inactive_q, gui_wait, effects, last_gate>>

\* log_activity, watchdog_indexer.py:204-220: the camera's locations through
\* their cache, then insert_one, which succeeds (ok) or raises into the except.
LogActivityInsert(t, ok) ==
  /\ UNCHANGED notWork
  /\ t \in DOMAIN thr
  /\ thr[t].pc = "log_insert"
  /\ LET th == thr[t]
     IN  /\ redis' = IF Exists(redis, CamLocKey(th.client), clock) THEN redis
                     ELSE RedisSet(redis, CamLocKey(th.client), "locations", CAM_LOC_TTL_S, clock)
         /\ IF ok
            THEN /\ effects' = RecordEffect(effects, EffectKey("log", th.face.meta.aadhar, th.client), clock)
                 /\ thr' = [thr EXCEPT ![t].pc = "log_cooldown", ![t].call.ran = TRUE]
            ELSE /\ thr' = [thr EXCEPT ![t].pc = "log_lock_set", ![t].call.failed = TRUE]
                 /\ UNCHANGED effects
  /\ UNCHANGED <<clock, online, connects, new_stream_signals,
                 active_sessions, inactive_q, gui_wait, last_gate>>

\* log_activity, watchdog_indexer.py:221.
LogActivityCooldown(t) ==
  /\ UNCHANGED notWork
  /\ t \in DOMAIN thr
  /\ thr[t].pc = "log_cooldown"
  /\ redis' = RedisSet(redis, CooldownKey(thr[t].face.meta.aadhar, thr[t].client), "1",
                       LOG_COOLDOWN_S, clock)
  /\ thr' = [thr EXCEPT ![t].pc = "log_lock_set"]
  /\ UNCHANGED <<clock, online, connects, new_stream_signals,
                 active_sessions, inactive_q, gui_wait, effects, last_gate>>

\* video_worker.py:187.
LogLockSet(t) ==
  /\ UNCHANGED notWork
  /\ t \in DOMAIN thr
  /\ thr[t].pc = "log_lock_set"
  /\ LET th == thr[t]
     IN  /\ redis' = RedisSet(redis, LogLockKey(th.face.meta.aadhar, th.client), "1",
                              LOG_LOCK_TTL_S, clock)
         /\ last_gate' = CallRecord("log", th.face.meta.aadhar, th.client, th.call)
  /\ thr' = [thr EXCEPT ![t].pc = "alert_gate"]
  /\ UNCHANGED <<clock, online, connects, new_stream_signals,
                 active_sessions, inactive_q, gui_wait, effects>>

NeedsAlertWhenKnown(meta) == meta.aadhar # ""

\* video_worker.py:189: if threat == "High"
NeedsAlert(meta) == meta.threat_level = "High"

\* video_worker.py:189-198: the test of the alert lock.
AlertGate(t) ==
  /\ UNCHANGED notWork
  /\ t \in DOMAIN thr
  /\ thr[t].pc = "alert_gate"
  /\ LET th == thr[t]
         name == th.face.meta.name
         aadhar == th.face.meta.aadhar
         call == [t |-> clock, prev |-> LastEffect(effects, EffectKey("alert", aadhar, th.client)),
                  ran |-> FALSE, failed |-> FALSE]
     IN  IF ~NeedsAlert(th.face.meta)
         THEN /\ thr' = [thr EXCEPT ![t].pc = "face_done"]
              /\ UNCHANGED last_gate
         ELSE IF Exists(redis, AlertLockKey(name, th.client), clock)
         THEN /\ thr' = [thr EXCEPT ![t].pc = "face_done"]
              /\ last_gate' = CallRecord("alert", aadhar, th.client, call)
         ELSE /\ thr' = [thr EXCEPT ![t].pc = "alert_publish", ![t].call = call]
              /\ UNCHANGED last_gate
  /\ UNCHANGED <<clock, redis, online, connects, new_stream_signals,
                 active_sessions, inactive_q, gui_wait, effects>>

\* video_worker.py:199.
AlertPublish(t) ==
  /\ UNCHANGED notWork
  /\ t \in DOMAIN thr
  /\ thr[t].pc = "alert_publish"
  /\ effects' = RecordEffect(effects, EffectKey("alert", thr[t].face.meta.aadhar, thr[t].client), clock)
  /\ thr' = [thr EXCEPT ![t].pc = "alert_lock_set", ![t].call.ran = TRUE]
  /\ UNCHANGED <<clock, redis, online, connects, new_stream_signals,
                 active_sessions, inactive_q, gui_wait, last_gate>>

\* video_worker.py:200.
AlertLockSet(t) ==
  /\ UNCHANGED notWork
  /\ t \in DOMAIN thr
  /\ thr[t].pc = "alert_lock_set"
  /\ LET th == thr[t]
     IN  /\ redis' = RedisSet(redis, AlertLockKey(th.face.meta.name, th.client), "1",
                              ALERT_LOCK_TTL_S, clock)
         /\ last_gate' = CallRecord("alert", th.face.meta.aadhar, th.client, th.call)
  /\ thr' = [thr EXCEPT ![t].pc = "face_done"]
  /\ UNCHANGED <<clock, online, connects, new_stream_signals,
                 active_sessions, inactive_q, gui_wait, effects>>

\* The render record of a face (video_worker.py:202-208); the landmarks are
\* left out.
RenderRecord(face) ==
  [bbox |-> face.bbox, name |-> face.meta.name, threat |-> face.meta.threat_level]

FaceDoneInPlace(t) ==
  /\ UNCHANGED notWork
  /\ t \in DOMAIN thr
  /\ thr[t].pc = "face_done"
  /\ LET th == thr[t]
     IN  thr' = [thr EXCEPT
                   ![t].parsed_faces = Append(@, RenderRecord(th.face)),
                   ![t].last_faces = Append(th.parsed_faces, RenderRecord(th.face)),
                   ![t].faces = Tail(@),
                   ![t].face = NewProcessor(th.client).face,
                   ![t].call = NewProcessor(th.client).call,
                   ![t].pc = "face"]
  /\ UNCHANGED <<clock, redis, online, connects, new_stream_signals,
                 active_sessions, inactive_q, gui_wait, effects, last_gate>>

\* video_worker.py:202-208, and on to the next face.
FaceDone(t) ==
  /\ UNCHANGED notWork
  /\ t \in DOMAIN thr
  /\ thr[t].pc = "face_done"
  /\ LET th == thr[t]
     IN  thr' = [thr EXCEPT
                   ![t].parsed_faces = Append(@, RenderRecord(th.face)),
                   ![t].faces = Tail(@),
                   ![t].face = NewProcessor(th.client).face,
                   ![t].call = NewProcessor(th.client).call,
                   ![t].pc = "face"]
  /\ UNCHANGED <<clock, redis, online, connects, new_stream_signals,
                 active_sessions, inactive_q, gui_wait, effects, last_gate>>

\* The for-loop is over: video_worker.py:211.
PublishFaces(t) ==
  /\ UNCHANGED notWork
  /\ t \in DOMAIN thr
  /\ thr[t].pc = "face"
  /\ thr[t].faces = <<>>
  /\ thr' = [thr EXCEPT ![t].last_faces = thr[t].parsed_faces, ![t].parsed_faces = <<>>,
                         ![t].used_tracks = {}, ![t].now = 0, ![t].pc = "draw",
                         ![t].detected = <<>>, ![t].cycle_of = 0,
                         ![t].complete = Hist([i \in DOMAIN thr[t].detected |->
                                                 thr[t].detected[i].bbox], @)]
  /\ UNCHANGED <<clock, redis, online, connects, new_stream_signals,
                 active_sessions, inactive_q, gui_wait, effects, last_gate>>

\* The drawing phase, frame_ready.emit and msleep (video_worker.py:216-256).
Draw(t) ==
  /\ UNCHANGED notWork
  /\ t \in DOMAIN thr
  /\ thr[t].pc = "draw"
  /\ thr' = [thr EXCEPT ![t].pc = "top", ![t].rendered = Hist(thr[t].last_faces, @),
                         ![t].stop = IF @ = "job" THEN "drawn" ELSE @]
  /\ UNCHANGED <<clock, redis, online, connects, new_stream_signals,
                 active_sessions, inactive_q, gui_wait, effects, last_gate>>

\* ---- Calls that raise.  run() has no try statement but the one around the
\* decoding of the frame (video_worker.py:79-83): an exception raised anywhere
\* else leaves run() and the thread is over.
\* face_app.get raises (video_worker.py:114).
DetectRaises(t) ==
  /\ UNCHANGED notWork
  /\ t \in DOMAIN thr
  /\ thr[t].pc = "detect"
  /\ thr' = [thr EXCEPT ![t].pc = "raised", ![t].exc = "detector"]
  /\ UNCHANGED <<clock, redis, online, connects, new_stream_signals,
                 active_sessions, inactive_q, gui_wait, effects, last_gate>>

\* watchdog.recognize_face raises (video_worker.py:173, reached on a miss of
\* the face cache): the IndexError and AttributeError of a query that meets a
\* rebuild, or an error of the index search itself.
RecognizeRaises(t) ==
  /\ UNCHANGED notWork
  /\ t \in DOMAIN thr
  /\ thr[t].pc = "face"
  /\ thr[t].faces # <<>>
  /\ ~Exists(redis, FaceCacheKey(Head(thr[t].faces).embedding), clock)
  /\ thr' = [thr EXCEPT ![t].pc = "raised", ![t].exc = "index"]
  /\ UNCHANGED <<clock, redis, online, connects, new_stream_signals,
                 active_sessions, inactive_q, gui_wait, effects, last_gate>>

\* The statement the thread is at calls Redis outside every try statement:
\* cache.get of the frame (video_worker.py:76), of the face cache (:166) and
\* its set (:179), the log lock (:185, :187), log_activity's exists, get and
\* setex (watchdog_indexer.py:201, 205, 211), the alert lock and the publish
\* (video_worker.py:198-200).
CallsRedis(th) ==
  \/ th.pc = "top" /\ th.running
  \/ th.pc = "face" /\ th.faces # <<>>
  \/ th.pc = "log_gate" /\ th.face.meta.aadhar # ""
  \/ th.pc = "alert_gate" /\ th.face.meta.threat_level = "High"
  \/ th.pc \in {"log_activity", "log_insert", "log_lock_set",
                "alert_publish", "alert_lock_set"}

\* Redis does not answer that call: redis.ConnectionError.
RedisRaises(t) ==
  /\ UNCHANGED notWork
  /\ t \in DOMAIN thr
  /\ CallsRedis(thr[t])
  /\ thr' = [thr EXCEPT ![t].pc = "raised", ![t].exc = "redis"]
  /\ UNCHANGED <<clock, redis, online, connects, new_stream_signals,
                 active_sessions, inactive_q, gui_wait, effects, last_gate>>

\* The setex of the cooldown key fails (watchdog_indexer.py:221): it stands
\* inside log_activity's try and the except at :223 takes the error.
LogActivityCooldownFails(t) ==
  /\ UNCHANGED notWork
  /\ t \in DOMAIN thr
  /\ thr[t].pc = "log_cooldown"
  /\ thr' = [thr EXCEPT ![t].pc = "log_lock_set"]
  /\ UNCHANGED <<clock, redis, online, connects, new_stream_signals,
                 active_sessions, inactive_q, gui_wait, effects, last_gate>>

\* Where a thread spends its time: asleep in msleep, inside the detector, drawing.
TimedPcs == {"top", "detect", "draw", "exited"}

\* A second goes by.  The statements between two Redis calls of a job take no
\* whole second.
ClockTick ==
  /\ UNCHANGED notWork
  /\ clock < MaxSchedClock
  /\ \A t \in DOMAIN thr : thr[t].pc \in TimedPcs
  /\ clock' = clock + 1
  /\ redis' = Expire(redis, clock + 1)
  /\ UNCHANGED <<online, connects, new_stream_signals, active_sessions,
                 thr, inactive_q, gui_wait, effects, last_gate>>

\* d seconds go by between two rounds of the run loops while the cameras keep
\* sending: the receive loop (server.py:77-78) has just stored a frame.
StreamFor(d, max) ==
  /\ UNCHANGED notWork
  /\ \A t \in DOMAIN thr : thr[t].pc = "top"
  /\ clock + d <= max
  /\ clock' = clock + d
  /\ LET kept == Expire(redis, clock + d)
         sent == {FrameKey(c) : c \in online}
     IN  redis' = [k \in DOMAIN kept \cup sent |->
                     IF k \in sent THEN [val |-> "ok", exp |-> clock + d + FRAME_TTL_S]
                     ELSE kept[k]]
  /\ UNCHANGED <<online, connects, new_stream_signals, active_sessions,
                 thr, inactive_q, gui_wait, effects, last_gate>>

\* ---- SpecSched: a camera comes and goes, the dashboard starts and stops its
\* sessions, the index is reloaded, the clock runs.
SchedSources == {"camA"}

SchedNext ==
  \/ \E c \in SchedSources : CameraConnect(c)
  \/ \E c \in SchedSources, kind \in SchedFrameKinds : FramePush(c, kind)
  \/ \E c \in SchedSources : CameraDisconnect(c)
  \/ CheckForNewStreams
  \/ StopStreamSession
  \/ StopReturns
  \/ ReloadIndex
  \/ \E t \in ThreadIds : LoopTop(t)
  \/ \E t \in ThreadIds, faces \in SchedScenes : Detect(t, faces)
  \/ \E t \in ThreadIds : TrackFace(t)
  \/ \E t \in ThreadIds : LogGate(t)
  \/ \E t \in ThreadIds : LogActivityCheck(t)
  \/ \E t \in ThreadIds, ok \in {TRUE} : LogActivityInsert(t, ok)
  \/ \E t \in ThreadIds : LogActivityCooldown(t)
  \/ \E t \in ThreadIds : LogLockSet(t)
  \/ \E t \in ThreadIds : AlertGate(t)
  \/ \E t \in ThreadIds : AlertPublish(t)
  \/ \E t \in ThreadIds : AlertLockSet(t)
  \/ \E t \in ThreadIds : FaceDone(t)
  \/ \E t \in ThreadIds : PublishFaces(t)
  \/ \E t \in ThreadIds : Draw(t)
  \/ ClockTick

\* ---- SpecRace: every camera streams and shows the same enrolled face; the
\* threads of the sessions interleave statement by statement.
RaceSteps == {10}

RaceNext ==
  \/ \E c \in Sources : CameraConnect(c)
  \/ \E c \in Sources, kind \in SchedFrameKinds : FramePush(c, kind)
  \/ CheckForNewStreams
  \/ \E t \in ThreadIds : LoopTop(t)
  \/ \E t \in ThreadIds, faces \in SchedScenes : Detect(t, faces)
  \/ \E t \in ThreadIds : TrackFace(t)
  \/ \E t \in ThreadIds : LogGate(t)
  \/ \E t \in ThreadIds : LogActivityCheck(t)
  \/ \E t \in ThreadIds, ok \in BOOLEAN : LogActivityInsert(t, ok)
  \/ \E t \in ThreadIds : LogActivityCooldown(t)
  \/ \E t \in ThreadIds : LogLockSet(t)
  \/ \E t \in ThreadIds : AlertGate(t)
  \/ \E t \in ThreadIds : AlertPublish(t)
  \/ \E t \in ThreadIds : AlertLockSet(t)
  \/ \E t \in ThreadIds : FaceDone(t)
  \/ \E t \in ThreadIds : PublishFaces(t)
  \/ \E t \in ThreadIds : Draw(t)
  \/ \E d \in RaceSteps : StreamFor(d, MaxRaceClock)

\* ---- SpecGate: one camera that keeps streaming, its thread alone, over a
\* span of time longer than every cooldown; the database accepts every insert.
GateSources == {"camA"}
GateSteps == {25}

GateNext ==
  \/ \E c \in GateSources : CameraConnect(c)
  \/ \E c \in GateSources, kind \in FrameKinds : FramePush(c, kind)
  \/ CheckForNewStreams
  \/ \E t \in ThreadIds : LoopTop(t)
  \/ \E t \in ThreadIds, faces \in GateScenes : Detect(t, faces)
  \/ \E t \in ThreadIds : TrackFace(t)
  \/ \E t \in ThreadIds : LogGate(t)
  \/ \E t \in ThreadIds : LogActivityCheck(t)
  \/ \E t \in ThreadIds, ok \in {TRUE} : LogActivityInsert(t, ok)
  \/ \E t \in ThreadIds : LogActivityCooldown(t)
  \/ \E t \in ThreadIds : LogLockSet(t)
  \/ \E t \in ThreadIds : AlertGate(t)
  \/ \E t \in ThreadIds : AlertPublish(t)
  \/ \E t \in ThreadIds : AlertLockSet(t)
  \/ \E t \in ThreadIds : FaceDone(t)
  \/ \E t \in ThreadIds : PublishFaces(t)
  \/ \E t \in ThreadIds : Draw(t)
  \/ \E d \in GateSteps : StreamFor(d, MaxGateClock)

\* ---- SpecFault: one camera that keeps streaming, its thread alone; the
\* detector, the index and Redis can fail at every call.
FaultNext ==
  \/ \E c \in GateSources : CameraConnect(c)
  \/ \E c \in GateSources, kind \in FrameKinds : FramePush(c, kind)
  \/ CheckForNewStreams
  \/ \E t \in ThreadIds : LoopTop(t)
  \/ \E t \in ThreadIds, faces \in GateScenes : Detect(t, faces)
  \/ \E t \in ThreadIds : DetectRaises(t)
  \/ \E t \in ThreadIds : TrackFace(t)
  \/ \E t \in ThreadIds : RecognizeRaises(t)
  \/ \E t \in ThreadIds : RedisRaises(t)
  \/ \E t \in ThreadIds : LogGate(t)
  \/ \E t \in ThreadIds : LogActivityCheck(t)
  \/ \E t \in ThreadIds, ok \in BOOLEAN : LogActivityInsert(t, ok)
  \/ \E t \in ThreadIds : LogActivityCooldown(t)
  \/ \E t \in ThreadIds : LogActivityCooldownFails(t)
  \/ \E t \in ThreadIds : LogLockSet(t)
  \/ \E t \in ThreadIds : AlertGate(t)
  \/ \E t \in ThreadIds : AlertPublish(t)
  \/ \E t \in ThreadIds : AlertLockSet(t)
  \/ \E t \in ThreadIds : FaceDone(t)
  \/ \E t \in ThreadIds : PublishFaces(t)
  \/ \E t \in ThreadIds : Draw(t)
  \/ \E d \in GateSteps : StreamFor(d, MaxGateClock)

\* ---- SpecCycle: one camera that stays connected, in front of it one face or
\* two; the index-updated signal arrives at any time; histories kept.
CycleScenes == {<<FaceA>>, <<FaceA, FaceD>>}

\* The camera sends a frame at once, or a second after the last one.
CycleSteps == {0, 1}

CycleNext ==
  \/ \E c \in SchedSources : CameraConnect(c)
  \/ CheckForNewStreams
  \/ ReloadIndex
  \/ \E t \in ThreadIds : LoopTop(t)
  \/ \E t \in ThreadIds, faces \in CycleScenes : Detect(t, faces)
  \/ \E t \in ThreadIds : TrackFace(t)
  \/ \E t \in ThreadIds : LogGate(t)
  \/ \E t \in ThreadIds : LogActivityCheck(t)
  \/ \E t \in ThreadIds, ok \in {TRUE} : LogActivityInsert(t, ok)
  \/ \E t \in ThreadIds : LogActivityCooldown(t)
  \/ \E t \in ThreadIds : LogLockSet(t)
  \/ \E t \in ThreadIds : AlertGate(t)
  \/ \E t \in ThreadIds : AlertPublish(t)
  \/ \E t \in ThreadIds : AlertLockSet(t)
  \/ \E t \in ThreadIds : FaceDone(t)
  \/ \E t \in ThreadIds : PublishFaces(t)
  \/ \E t \in ThreadIds : Draw(t)
  \/ \E d \in CycleSteps : StreamFor(d, MaxSchedClock)

\* ---- SpecLive: one camera that connects once and sends frames of every
\* kind or none at all, its session started and stopped by the dashboard,
\* under fair scheduling of the processor thread.
LiveThreads == {1}

\* One statement of the run loop of thread t.
ThreadStep(t) ==
  \/ LoopTop(t)
  \/ \E faces \in SchedScenes : Detect(t, faces)
  \/ TrackFace(t)
  \/ LogGate(t)
  \/ LogActivityCheck(t)
  \/ \E ok \in {TRUE} : LogActivityInsert(t, ok)
  \/ LogActivityCooldown(t)
  \/ LogLockSet(t)
  \/ AlertGate(t)
  \/ AlertPublish(t)
  \/ AlertLockSet(t)
  \/ FaceDone(t)
  \/ PublishFaces(t)
  \/ Draw(t)

LiveNext ==
  \/ \E c \in SchedSources : CameraConnect(c)
  \/ \E c \in SchedSources, kind \in FrameKinds : FramePush(c, kind)
  \/ CheckForNewStreams
  \/ StopStreamSession
  \/ StopReturns
  \/ \E t \in LiveThreads : LoopTop(t)
  \/ \E t \in LiveThreads, faces \in SchedScenes : Detect(t, faces)
  \/ \E t \in LiveThreads : TrackFace(t)
  \/ \E t \in LiveThreads : LogGate(t)
  \/ \E t \in LiveThreads : LogActivityCheck(t)
  \/ \E t \in LiveThreads, ok \in {TRUE} : LogActivityInsert(t, ok)
  \/ \E t \in LiveThreads : LogActivityCooldown(t)
  \/ \E t \in LiveThreads : LogLockSet(t)
  \/ \E t \in LiveThreads : AlertGate(t)
  \/ \E t \in LiveThreads : AlertPublish(t)
  \/ \E t \in LiveThreads : AlertLockSet(t)
  \/ \E t \in LiveThreads : FaceDone(t)
  \/ \E t \in LiveThreads : PublishFaces(t)
  \/ \E t \in LiveThreads : Draw(t)
  \/ ClockTick

\* ---- SpecCache: one camera shows one person whose embedding changes from
\* one inference job to the next (the head turns); both profiles are enrolled
\* and the index is not rebuilt.
CacheScenes == {<<FaceA>>, <<FaceB>>}

CacheNext ==
  \/ \E c \in SchedSources : CameraConnect(c)
  \/ CheckForNewStreams
  \/ \E t \in ThreadIds : LoopTop(t)
  \/ \E t \in ThreadIds, faces \in CacheScenes : Detect(t, faces)
  \/ \E t \in ThreadIds : TrackFace(t)
  \/ \E t \in ThreadIds : LogGate(t)
  \/ \E t \in ThreadIds : LogActivityCheck(t)
  \/ \E t \in ThreadIds, ok \in {TRUE} : LogActivityInsert(t, ok)
  \/ \E t \in ThreadIds : LogActivityCooldown(t)
  \/ \E t \in ThreadIds : LogLockSet(t)
  \/ \E t \in ThreadIds : AlertGate(t)
  \/ \E t \in ThreadIds : AlertPublish(t)
  \/ \E t \in ThreadIds : AlertLockSet(t)
  \/ \E t \in ThreadIds : FaceDone(t)
  \/ \E t \in ThreadIds : PublishFaces(t)
  \/ \E t \in ThreadIds : Draw(t)
  \/ \E d \in CycleSteps : StreamFor(d, MaxSchedClock)

\* ------------------------------------------------------------------
\* The identity registry: core/watchdog_indexer.py, WatchdogIndexer.
\*
\* enroll_face, update_profile and delete_profile are called from slots of the
\* GUI thread (ui/dashboard.py:501, 1094, 1121), one after the other;
\* recognize_face is called from the run loop of a VideoProcessor thread
\* (video_worker.py:173).  No lock guards _faiss_index and _faiss_mapping: the
\* steps below are the reads and writes of these two attributes, each atomic,
\* in program order.
\* ------------------------------------------------------------------
Aadhars == {"1111", "2222"}

NameOf(aadhar) == IF aadhar = "1111" THEN "Ann" ELSE "Bob"

ThreatLevels == {"Low", "High"}

\* The threat level given at enrolment; update_profile changes it later.
EnrollThreats == {"High"}

\* face.embedding of an enrolment image
IndexEmbeddings == {<<1, 0>>, <<0, 1>>}

\* The embedding and the threshold (in hundredths) of a query that runs while
\* the GUI thread works on the registry.
RaceEmbeddings == {<<1, 0>>, <<0, 1>>}
RaceThresholds == {-10, 45}

\* len(faces) for an enrolment image (watchdog_indexer.py:144)
FaceCounts == {0, 1, 2}

\* The collection when the program starts.
InitialStores == {<<>>, EnrolledProfiles}

PositionOf(docs, aadhar) ==
  IF \E i \in 1..Len(docs) : docs[i].aadhar = aadhar
  THEN CHOOSE i \in 1..Len(docs) : docs[i].aadhar = aadhar
  ELSE 0

\* update_one({"aadhar": aadhar}, {"$set": fields}, upsert=True), watchdog_indexer.py:169-178
Upsert(docs, doc) ==
  IF PositionOf(docs, doc.aadhar) = 0 THEN Append(docs, doc)
  ELSE [docs EXCEPT ![PositionOf(docs, doc.aadhar)] = doc]

\* update_one({"aadhar": aadhar}, {"$set": data}), watchdog_indexer.py:244
SetThreat(docs, aadhar, threat) ==
  IF PositionOf(docs, aadhar) = 0 THEN docs
  ELSE [docs EXCEPT ![PositionOf(docs, aadhar)].threat_level = threat]

\* delete_one({"aadhar": aadhar}), watchdog_indexer.py:237
DeleteOne(docs, aadhar) == SelectSeq(docs, LAMBDA doc : doc.aadhar # aadhar)

AcceptsAtLeastOne(n) == n >= 1

\* watchdog_indexer.py:145-148: exactly one face passes.
AcceptsFaceCount(n) == ~(n = 0) /\ ~(n > 1)

IdleGui ==
  [pc |-> "idle", op |-> "none", faces |-> 1, n |-> 0, identities |-> <<>>,
   before |-> [faiss |-> EmptySnapshot, profiles |-> <<>>], outcome |-> "none"]

IdleQry ==
  [pc |-> "idle", q |-> <<0, 0>>, pct |-> 0, idx |-> 0, out |-> "none", meta |-> NoMeta,
   igen |-> -1, mgen |-> -1, clean |-> TRUE, after |-> -1]

\* No EnrollmentWorker is running.
IdleEnr == [pc |-> "idle", n |-> 0, identities |-> <<>>, outcome |-> "none"]

\* The registry as WatchdogIndexer.__init__ leaves it (watchdog_indexer.py:38-47):
\* _connect_db, then update_index.
IndexInit ==
  /\ profiles \in InitialStores
  /\ db_ok \in BOOLEAN
  /\ faiss = IF db_ok THEN Snapshot(profiles) ELSE EmptySnapshot
  /\ gui = IdleGui
  /\ qry = IdleQry
  /\ gen = [index |-> 0, mapping |-> 0, docs |-> IF db_ok THEN profiles ELSE <<>>]
  /\ nops = 0
  /\ enr = IdleEnr

\* The registry under the stream workers: both profiles enrolled, nothing running.
IndexIdle ==
  /\ profiles = EnrolledProfiles
  /\ db_ok = TRUE
  /\ faiss = EnrolledIndex
  /\ gui = IdleGui
  /\ qry = IdleQry
  /\ gen = [index |-> 0, mapping |-> 0, docs |-> IF db_ok THEN profiles ELSE <<>>]
  /\ nops = 0
  /\ enr = IdleEnr

\* A call of the GUI thread begins: what it starts from, for the record.
Called(op) ==
  [pc |-> "idle", op |-> op, faces |-> 1, n |-> nops + 1, identities |-> <<>>,
   before |-> [faiss |-> faiss, profiles |-> profiles], outcome |-> "none"]

\* enroll_face up to its call of update_index (watchdog_indexer.py:134-178).
\* count = len(faces); the write needs _profiles_col (None when _db is None)
\* and a server that answers (up), and raises otherwise.
EnrollFace(count, aadhar, threat, embedding, up) ==
  /\ UNCHANGED <<notIndex, enr>>
  /\ gui.pc = "idle"
  /\ nops < MaxOps
  /\ nops' = nops + 1
  /\ IF ~AcceptsFaceCount(count)
     THEN /\ gui' = [Called("enroll") EXCEPT !.outcome = "ValueError", !.faces = count]
          /\ UNCHANGED profiles
     ELSE IF ~db_ok \/ ~up
     THEN /\ gui' = [Called("enroll") EXCEPT !.outcome = "raised", !.faces = count]
          /\ UNCHANGED profiles
     ELSE /\ profiles' = Upsert(profiles,
                           ProfileDoc([aadhar |-> aadhar, name |-> NameOf(aadhar),
                                       threat_level |-> threat], embedding))
          /\ gui' = [Called("enroll") EXCEPT !.pc = "rebuild", !.faces = count]
  /\ UNCHANGED <<faiss, db_ok, qry, gen>>

\* update_profile up to its call of update_index (watchdog_indexer.py:241-244).
UpdateProfile(aadhar, threat, up) ==
  /\ UNCHANGED <<notIndex, enr>>
  /\ gui.pc = "idle"
  /\ nops < MaxOps
  /\ nops' = nops + 1
  /\ IF ~db_ok
     THEN /\ gui' = [Called("update") EXCEPT !.outcome = "skipped"]
          /\ UNCHANGED profiles
     ELSE IF ~up
     THEN /\ gui' = [Called("update") EXCEPT !.outcome = "raised"]
          /\ UNCHANGED profiles
     ELSE /\ profiles' = SetThreat(profiles, aadhar, threat)
          /\ gui' = [Called("update") EXCEPT !.pc = "rebuild"]
  /\ UNCHANGED <<faiss, db_ok, qry, gen>>

\* delete_profile up to its call of update_index (watchdog_indexer.py:234-237).
DeleteProfile(aadhar, up) ==
  /\ UNCHANGED <<notIndex, enr>>
  /\ gui.pc = "idle"
  /\ nops < MaxOps
  /\ nops' = nops + 1
  /\ IF ~db_ok
     THEN /\ gui' = [Called("delete") EXCEPT !.outcome = "skipped"]
          /\ UNCHANGED profiles
     ELSE IF ~up
     THEN /\ gui' = [Called("delete") EXCEPT !.outcome = "raised"]
          /\ UNCHANGED profiles
     ELSE /\ profiles' = DeleteOne(profiles, aadhar)
          /\ gui' = [Called("delete") EXCEPT !.pc = "rebuild"]
  /\ UNCHANGED <<faiss, db_ok, qry, gen>>

\* update_faiss_index(), the rebuild on its own (watchdog_indexer.py:282).
UpdateFaissIndex ==
  /\ UNCHANGED <<notIndex, enr>>
  /\ gui.pc = "idle"
  /\ nops < MaxOps
  /\ nops' = nops + 1
  /\ gui' = [Called("rebuild") EXCEPT !.pc = "rebuild"]
  /\ UNCHANGED <<faiss, profiles, db_ok, qry, gen>>

\* history: a query in progress has had the snapshot written under it
Disturbed(query) ==
  IF query.pc \in {"search", "lookup"} THEN [query EXCEPT !.clean = FALSE] ELSE query

KeepsOnEmpty(snapshot, identities) ==
  IF identities = <<>> THEN snapshot.index ELSE BuildIndex(identities)

\* The value update_index assigns to _faiss_index (watchdog_indexer.py:105, 130).
NewIndex(snapshot, identities) ==
  IF identities = <<>> THEN NoIndex ELSE BuildIndex(identities)

\* The value update_index assigns to _faiss_mapping (watchdog_indexer.py:106, 131).
NewMapping(identities) ==
  IF identities = <<>> THEN <<>> ELSE BuildMapping(identities)

UpdateIndexReadClearing(up) ==
  /\ UNCHANGED <<notIndex, enr>>
  /\ gui.pc = "rebuild"
  /\ gui' = IF ~db_ok THEN [gui EXCEPT !.pc = "idle", !.outcome = "unreachable"]
            ELSE IF ~up THEN [gui EXCEPT !.pc = "idle", !.outcome = "read_failed"]
            ELSE [gui EXCEPT !.pc = "set_index", !.identities = profiles]
  /\ faiss' = IF db_ok /\ up THEN faiss ELSE EmptySnapshot
  /\ UNCHANGED <<profiles, db_ok, qry, gen, nops>>

\* update_index up to its first assignment (watchdog_indexer.py:92-128);
\* find() raises unless the server answers (up).
UpdateIndexRead(up) ==
  /\ UNCHANGED <<notIndex, enr>>
  /\ gui.pc = "rebuild"
  /\ gui' = IF ~db_ok THEN [gui EXCEPT !.pc = "idle", !.outcome = "unreachable"]
            ELSE IF ~up THEN [gui EXCEPT !.pc = "idle", !.outcome = "read_failed"]
            ELSE [gui EXCEPT !.pc = "set_index", !.identities = profiles]
  /\ UNCHANGED <<faiss, profiles, db_ok, qry, gen, nops>>

\* self._faiss_index = ... (watchdog_indexer.py:105, 130)
AssignIndex ==
  /\ UNCHANGED <<notIndex, enr>>
  /\ gui.pc = "set_index"
  /\ faiss' = [faiss EXCEPT !.index = NewIndex(faiss, gui.identities)]
  /\ gen' = [gen EXCEPT !.index = gui.n]
  /\ gui' = [gui EXCEPT !.pc = "set_mapping"]
  /\ qry' = Disturbed(qry)
  /\ UNCHANGED <<profiles, db_ok, nops>>

\* self._faiss_mapping = ... (watchdog_indexer.py:106, 131), and the return to
\* the slot that made the call.  handle_delete_profile (dashboard.py:1094-1096)
\* and EditProfileDialog.save (dashboard.py:501-502) go on without a word to
\* the processors; submit_to_faiss shows its message box and then emits
\* faiss_updated (dashboard.py:1122-1131).
AssignMapping ==
  /\ UNCHANGED <<notIndex, enr>>
  /\ gui.pc = "set_mapping"
  /\ faiss' = [faiss EXCEPT !.mapping = NewMapping(gui.identities)]
  /\ gen' = [gen EXCEPT !.mapping = gui.n, !.docs = gui.identities]
  /\ gui' = [gui EXCEPT !.pc = IF gui.op = "enroll" THEN "notify" ELSE "idle",
                        !.identities = <<>>, !.outcome = "ok",
                        !.before = IdleGui.before, !.faces = 1]
  /\ qry' = Disturbed(qry)
  /\ UNCHANGED <<profiles, db_ok, nops>>

\* global_signals.faiss_updated.emit() (dashboard.py:1131): the reload_index
\* slots run at once, on the GUI thread, and submit_to_faiss returns.
FaissUpdated ==
  /\ UNCHANGED <<storeVars, trackVars>>
  /\ gui.pc = "notify"
  /\ gui_wait = 0
  /\ thr' = Reloaded(thr, active_sessions)
  /\ gui' = [gui EXCEPT !.pc = "idle"]
  /\ UNCHANGED <<clock, redis, online, connects, new_stream_signals,
                 active_sessions, inactive_q, gui_wait, effects, last_gate>>
  /\ UNCHANGED <<faiss, profiles, db_ok, qry, gen, nops, enr>>

\* ---- EnrollmentWorker.run (ui/widgets/enrollment_worker.py:24-34): enroll_face
\* in a thread of its own, started by EnrollmentView; the image shows one face
\* and the store answers.  The GUI thread stays free for its slots, CIView._delete
\* (ui/views/ci_view.py:115-124) among them.  update_index takes no lock
\* (watchdog_indexer.py:92-131).
WorkerEnroll(aadhar, threat, embedding) ==
  /\ UNCHANGED notIndex
  /\ enr.pc = "idle"
  /\ nops < MaxOps
  /\ nops' = nops + 1
  /\ profiles' = Upsert(profiles,
                        ProfileDoc([aadhar |-> aadhar, name |-> NameOf(aadhar),
                                    threat_level |-> threat], embedding))
  /\ enr' = [IdleEnr EXCEPT !.pc = "rebuild", !.n = nops + 1]
  /\ UNCHANGED <<faiss, db_ok, gui, qry, gen>>

\* update_index in the worker thread: identities = list(find({})), line 99.
WorkerRead ==
  /\ UNCHANGED notIndex
  /\ enr.pc = "rebuild"
  /\ enr' = [enr EXCEPT !.pc = "set_index", !.identities = profiles]
  /\ UNCHANGED <<faiss, profiles, db_ok, gui, qry, gen, nops>>

\* self._faiss_index = idx in the worker thread (watchdog_indexer.py:130)
WorkerAssignIndex ==
  /\ UNCHANGED notIndex
  /\ enr.pc = "set_index"
  /\ faiss' = [faiss EXCEPT !.index = NewIndex(faiss, enr.identities)]
  /\ gen' = [gen EXCEPT !.index = enr.n]
  /\ enr' = [enr EXCEPT !.pc = "set_mapping"]
  /\ qry' = Disturbed(qry)
  /\ UNCHANGED <<profiles, db_ok, gui, nops>>

\* self._faiss_mapping = mapping in the worker thread (watchdog_indexer.py:131),
\* and run() returns.
WorkerAssignMapping ==
  /\ UNCHANGED notIndex
  /\ enr.pc = "set_mapping"
  /\ faiss' = [faiss EXCEPT !.mapping = NewMapping(enr.identities)]
  /\ gen' = [gen EXCEPT !.mapping = enr.n, !.docs = enr.identities]
  /\ enr' = [enr EXCEPT !.pc = "idle", !.identities = <<>>, !.outcome = "ok"]
  /\ qry' = Disturbed(qry)
  /\ UNCHANGED <<profiles, db_ok, gui, nops>>

\* recognize_face, its test of the index (watchdog_indexer.py:185-186).
QueryCall(q, pct) ==
  /\ UNCHANGED <<notIndex, enr>>
  /\ qry.pc = "idle"
  /\ qry' = IF ~faiss.index.built \/ Len(faiss.index.rows) = 0
            THEN [IdleQry EXCEPT !.pc = "done", !.q = q, !.pct = pct,
                                 !.clean = (gui.pc # "set_mapping"),
                                 !.after = IF gui.pc = "idle" THEN nops ELSE -1]
            ELSE [IdleQry EXCEPT !.pc = "search", !.q = q, !.pct = pct,
                                 !.clean = (gui.pc # "set_mapping"),
                                 !.after = IF gui.pc = "idle" THEN nops ELSE -1]
  /\ UNCHANGED <<faiss, profiles, db_ok, gui, gen, nops>>

\* self._faiss_index.search(query, k=1) and the test of its result
\* (watchdog_indexer.py:187-192).  The attribute is read again: on None the
\* call raises AttributeError.
QuerySearch ==
  /\ UNCHANGED <<notIndex, enr>>
  /\ qry.pc = "search"
  /\ qry' = IF ~faiss.index.built
            THEN [qry EXCEPT !.pc = "done", !.out = "raised", !.igen = gen.index]
            ELSE LET query == Unit(qry.q)
                     best == Nearest(faiss.index.rows, query)
                 IN  IF SimAbove(query, faiss.index.rows[best], qry.pct)
                     THEN [qry EXCEPT !.pc = "lookup", !.idx = best, !.igen = gen.index]
                     ELSE [qry EXCEPT !.pc = "done", !.igen = gen.index]
  /\ UNCHANGED <<faiss, profiles, db_ok, gui, gen, nops>>

\* return self._faiss_mapping[idxs[0][0]] (watchdog_indexer.py:193); IndexError
\* when the list is shorter.
QueryLookup ==
  /\ UNCHANGED <<notIndex, enr>>
  /\ qry.pc = "lookup"
  /\ qry' = IF qry.idx > Len(faiss.mapping)
            THEN [qry EXCEPT !.pc = "done", !.out = "raised", !.mgen = gen.mapping]
            ELSE [qry EXCEPT !.pc = "done", !.out = "match",
                             !.meta = faiss.mapping[qry.idx], !.mgen = gen.mapping]
  /\ UNCHANGED <<faiss, profiles, db_ok, gui, gen, nops>>

\* ---- recognize_face as a function of the snapshot (SpecQuery)
P3 == [aadhar |-> "3333", name |-> "Cy", threat_level |-> "Low"]

\* Reference embeddings: <<3, 4>> has similarity 0.6 with <<1, 0>> and 0.8 with
\* <<0, 1>>; <<4, 3>> the other way round.
QueryRefs == {<<1, 0>>, <<0, 1>>, <<3, 4>>}

\* Registries of up to three profiles, any of them with equal embeddings.
QueryStores ==
  {<<>>}
  \cup {<<ProfileDoc(P1, a)>> : a \in QueryRefs}
  \cup {<<ProfileDoc(P1, a), ProfileDoc(P2, b)>> : a \in QueryRefs, b \in QueryRefs}
  \cup {<<ProfileDoc(P1, a), ProfileDoc(P2, b), ProfileDoc(P3, c)>> :
          a \in QueryRefs, b \in QueryRefs, c \in QueryRefs}

QueryEmbeddings == {<<1, 0>>, <<0, 1>>, <<3, 4>>, <<4, 3>>, <<2, 0>>, <<0, 0>>}

\* thresholds in hundredths; 45 is the worker's (video_worker.py:173)
Thresholds == {-10, 0, 45, 60, 80, 100}

\* The registry after any number of successful enrolments, nothing running.
QueryInit ==
  /\ profiles \in QueryStores
  /\ db_ok = TRUE
  /\ faiss = Snapshot(profiles)
  /\ gui = IdleGui
  /\ qry = IdleQry
  /\ gen = [index |-> 0, mapping |-> 0, docs |-> profiles]
  /\ nops = 0
  /\ enr = IdleEnr

QueryNext ==
  \/ \E q \in QueryEmbeddings, pct \in Thresholds : QueryCall(q, pct)
  \/ QuerySearch
  \/ QueryLookup

IndexNext ==
  \/ \E count \in FaceCounts, aadhar \in Aadhars, threat \in EnrollThreats,
        embedding \in IndexEmbeddings, up \in BOOLEAN :
       EnrollFace(count, aadhar, threat, embedding, up)
  \/ \E aadhar \in Aadhars, threat \in ThreatLevels, up \in BOOLEAN :
       UpdateProfile(aadhar, threat, up)
  \/ \E aadhar \in Aadhars, up \in BOOLEAN : DeleteProfile(aadhar, up)
  \/ UpdateFaissIndex
  \/ \E up \in BOOLEAN : UpdateIndexRead(up)
  \/ AssignIndex
  \/ AssignMapping
  \/ FaissUpdated
  \/ \E q \in RaceEmbeddings, pct \in RaceThresholds : QueryCall(q, pct)
  \/ QuerySearch
  \/ QueryLookup

\* ---- SpecLock: two enrolled people who bear the same name, both High, side
\* by side in front of one camera.  name is a free-text field of the
\* enrolment form and aadhar the key of the upsert (watchdog_indexer.py:169).
P4 == [aadhar |-> "4444", name |-> "Ann", threat_level |-> "High"]

LockProfiles == <<ProfileDoc(P1, <<1, 0>>), ProfileDoc(P4, <<0, 1>>)>>

LockScenes == {<<FaceA, FaceD>>}

LockInit ==
  /\ profiles = LockProfiles
  /\ db_ok = TRUE
  /\ faiss = Snapshot(profiles)
  /\ gui = IdleGui
  /\ qry = IdleQry
  /\ gen = [index |-> 0, mapping |-> 0, docs |-> profiles]
  /\ nops = 0
  /\ enr = IdleEnr

LockNext ==
  \/ \E c \in GateSources : CameraConnect(c)
  \/ \E c \in GateSources, kind \in SchedFrameKinds : FramePush(c, kind)
  \/ CheckForNewStreams
  \/ \E t \in ThreadIds : LoopTop(t)
  \/ \E t \in ThreadIds, faces \in LockScenes : Detect(t, faces)
  \/ \E t \in ThreadIds : TrackFace(t)
  \/ \E t \in ThreadIds : LogGate(t)
  \/ \E t \in ThreadIds : LogActivityCheck(t)
  \/ \E t \in ThreadIds, ok \in {TRUE} : LogActivityInsert(t, ok)
  \/ \E t \in ThreadIds : LogActivityCooldown(t)
  \/ \E t \in ThreadIds : LogLockSet(t)
  \/ \E t \in ThreadIds : AlertGate(t)
  \/ \E t \in ThreadIds : AlertPublish(t)
  \/ \E t \in ThreadIds : AlertLockSet(t)
  \/ \E t \in ThreadIds : FaceDone(t)
  \/ \E t \in ThreadIds : PublishFaces(t)
  \/ \E t \in ThreadIds : Draw(t)
  \/ \E d \in GateSteps : StreamFor(d, MaxGateClock)

\* ---- SpecAlert: three enrolled people, one of each threat level, and a
\* stranger, in the four corners of one camera's picture.
P5 == [aadhar |-> "5555", name |-> "Dee", threat_level |-> "Medium"]

AlertProfiles ==
  <<ProfileDoc(P1, <<1, 0>>), ProfileDoc(P3, <<3, 1>>), ProfileDoc(P5, <<2, 1>>)>>

\* Cy at (250,250) and Dee at (100,250); FaceA is Ann, and FaceD, whose
\* embedding has similarity 0.447 with Dee's and less with the others, nobody.
FaceL == [bbox |-> <<230, 230, 270, 270>>, embedding |-> <<3, 1>>]
FaceM == [bbox |-> <<80, 230, 120, 270>>,  embedding |-> <<2, 1>>]

AlertScenes == {<<FaceA, FaceD>>, <<FaceL, FaceM, FaceD>>}

AlertInit ==
  /\ profiles = AlertProfiles
  /\ db_ok = TRUE
  /\ faiss = Snapshot(profiles)
  /\ gui = IdleGui
  /\ qry = IdleQry
  /\ gen = [index |-> 0, mapping |-> 0, docs |-> profiles]
  /\ nops = 0
  /\ enr = IdleEnr

AlertNext ==
  \/ \E c \in SchedSources : CameraConnect(c)
  \/ CheckForNewStreams
  \/ \E t \in ThreadIds : LoopTop(t)
  \/ \E t \in ThreadIds, faces \in AlertScenes : Detect(t, faces)
  \/ \E t \in ThreadIds : TrackFace(t)
  \/ \E t \in ThreadIds : LogGate(t)
  \/ \E t \in ThreadIds : LogActivityCheck(t)
  \/ \E t \in ThreadIds, ok \in {TRUE} : LogActivityInsert(t, ok)
  \/ \E t \in ThreadIds : LogActivityCooldown(t)
  \/ \E t \in ThreadIds : LogLockSet(t)
  \/ \E t \in ThreadIds : AlertGate(t)
  \/ \E t \in ThreadIds : AlertPublish(t)
  \/ \E t \in ThreadIds : AlertLockSet(t)
  \/ \E t \in ThreadIds : FaceDone(t)
  \/ \E t \in ThreadIds : PublishFaces(t)
  \/ \E t \in ThreadIds : Draw(t)
  \/ \E d \in CycleSteps : StreamFor(d, MaxSchedClock)

\* ---- SpecReload: one camera that stays connected and shows Ann, while the
\* operator enrols Ann again through submit_to_faiss, now at threat level Low
\* (enroll_face upserts name, threat level and embedding, watchdog_indexer.py:
\* 169-178).  The store answers.
ReloadThreats == {"Low"}

ReloadNext ==
  \/ \E c \in SchedSources : CameraConnect(c)
  \/ \E c \in SchedSources, kind \in SchedFrameKinds : FramePush(c, kind)
  \/ CheckForNewStreams
  \/ \E t \in ThreadIds : LoopTop(t)
  \/ \E t \in ThreadIds, faces \in SchedScenes : Detect(t, faces)
  \/ \E t \in ThreadIds : TrackFace(t)
  \/ \E t \in ThreadIds : LogGate(t)
  \/ \E t \in ThreadIds : LogActivityCheck(t)
  \/ \E t \in ThreadIds, ok \in {TRUE} : LogActivityInsert(t, ok)
  \/ \E t \in ThreadIds : LogActivityCooldown(t)
  \/ \E t \in ThreadIds : LogLockSet(t)
  \/ \E t \in ThreadIds : AlertGate(t)
  \/ \E t \in ThreadIds : AlertPublish(t)
  \/ \E t \in ThreadIds : AlertLockSet(t)
  \/ \E t \in ThreadIds : FaceDone(t)
  \/ \E t \in ThreadIds : PublishFaces(t)
  \/ \E t \in ThreadIds : Draw(t)
  \/ ClockTick
  \/ \E count \in {1}, aadhar \in {"1111"}, threat \in ReloadThreats,
        embedding \in {<<1, 0>>}, up \in {TRUE} :
       EnrollFace(count, aadhar, threat, embedding, up)
  \/ \E up \in {TRUE} : UpdateIndexRead(up)
  \/ AssignIndex
  \/ AssignMapping
  \/ FaissUpdated

\* ---- SpecMutate: enrolments in the worker thread of the enrolment view while
\* the operator deletes profiles in the GUI thread; the store answers.
MutateNext ==
  \/ \E aadhar \in Aadhars, threat \in EnrollThreats, embedding \in IndexEmbeddings :
       WorkerEnroll(aadhar, threat, embedding)
  \/ WorkerRead
  \/ WorkerAssignIndex
  \/ WorkerAssignMapping
  \/ \E aadhar \in Aadhars, up \in {TRUE} : DeleteProfile(aadhar, up)
  \/ \E up \in {TRUE} : UpdateIndexRead(up)
  \/ AssignIndex
  \/ AssignMapping

\* The part of the state a specification does not exercise stays as constructed.
StoreIdle == StoreInit /\ max_inactive = FACE_MAX_INACTIVE_S /\ keep_frames = FALSE
TrackIdle == TrackInit /\ appended = <<<<1, 0>>>>

SpecStoreInit == StoreInit /\ keep_frames = FALSE /\ TrackIdle /\ WorkInit /\ IndexIdle

SpecStore == SpecStoreInit /\ [][StoreNext]_vars

\* The store fed frames of one detection each, the frames kept in `frames`.
FramesNext ==
  \/ \E input \in FrameInputs : UpdateCall(<<input[1]>>, input[2])
  \/ UpdateStep
  \/ UpdateReturn
  \/ PruneStale
  \/ Clear
  \/ Tick

SpecFramesInit ==
  StoreInit /\ keep_frames = TRUE /\ max_inactive = FACE_MAX_INACTIVE_S /\ TrackIdle /\ WorkInit /\ IndexIdle

SpecFrames == SpecFramesInit /\ [][FramesNext]_vars

SpecTrackInit == TrackInit /\ StoreIdle /\ WorkInit /\ IndexIdle

SpecTrack == SpecTrackInit /\ [][TrackNext]_vars

SpecSchedInit == WorkInit /\ StoreIdle /\ TrackIdle /\ IndexIdle

SpecSched == SpecSchedInit /\ [][SchedNext]_vars

SpecRaceInit == WorkInit /\ StoreIdle /\ TrackIdle /\ IndexIdle

SpecRace == SpecRaceInit /\ [][RaceNext]_vars

SpecGateInit == WorkInit /\ StoreIdle /\ TrackIdle /\ IndexIdle

SpecGate == SpecGateInit /\ [][GateNext]_vars

SpecIndexInit == IndexInit /\ StoreIdle /\ TrackIdle /\ WorkInit

SpecIndex == SpecIndexInit /\ [][IndexNext]_vars

SpecQueryInit == QueryInit /\ StoreIdle /\ TrackIdle /\ WorkInit

SpecQuery == SpecQueryInit /\ [][QueryNext]_vars

\* The same, with the histories of the stream workers kept.
StoreKept == StoreInit /\ max_inactive = FACE_MAX_INACTIVE_S /\ keep_frames = TRUE

SpecCycleInit == WorkInit /\ StoreKept /\ TrackIdle /\ IndexIdle

SpecCycle == SpecCycleInit /\ [][CycleNext]_vars

SpecFaultInit == WorkInit /\ StoreIdle /\ TrackIdle /\ IndexIdle

SpecFault == SpecFaultInit /\ [][FaultNext]_vars

SpecMutateInit == WorkInit /\ StoreIdle /\ TrackIdle /\ IndexIdle

SpecMutate == SpecMutateInit /\ [][MutateNext]_vars

SpecLockInit == WorkInit /\ StoreIdle /\ TrackIdle /\ LockInit

SpecLock == SpecLockInit /\ [][LockNext]_vars

SpecStopInit == WorkInit /\ StoreKept /\ TrackIdle /\ IndexIdle

\* The camera and the dashboard of SpecSched, histories kept.
SpecStop == SpecStopInit /\ [][SchedNext]_vars

SpecLiveInit == WorkInit /\ StoreIdle /\ TrackIdle /\ IndexIdle

\* The operating system schedules every thread again and again, and every call
\* a thread makes returns: a thread that can take a step takes one.
SpecLive ==
  SpecLiveInit /\ [][LiveNext]_vars /\ \A t \in LiveThreads : WF_vars(ThreadStep(t))

SpecAlertInit == WorkInit /\ StoreIdle /\ TrackIdle /\ AlertInit

SpecAlert == SpecAlertInit /\ [][AlertNext]_vars

SpecCacheInit == WorkInit /\ StoreIdle /\ TrackIdle /\ IndexIdle

SpecCache == SpecCacheInit /\ [][CacheNext]_vars

SpecReloadInit == WorkInit /\ StoreKept /\ TrackIdle /\ IndexIdle

SpecReload == SpecReloadInit /\ [][ReloadNext]_vars


\* ------------------------------------------------------------------
\* Properties of the Track Store (SpecStore)
\* ------------------------------------------------------------------
\* The binding made by the step that ran last, and the distance, at the start of
\* that step, between its detection and a track.
BoundId == parsed[Len(parsed)].track_id
PreDist(tid) == Dist2x4(last.centroid, last.tracks[tid].centroid)
PreUnmatched == DOMAIN last.tracks \ last.used_ids

\* C4: every newly created track gets an id strictly greater than every id the
\* store allocated before, over any sequence of update, prune_stale and clear;
\* so an id is never assigned again after its track was removed.
C4_IdsStrictlyIncreasing ==
  /\ \A i, j \in 1..Len(issued) : i < j => issued[i] < issued[j]
  /\ \A tid \in DOMAIN tracks : \E i \in 1..Len(issued) : issued[i] = tid
  /\ \A i \in 1..Len(issued) : issued[i] <= id_counter

C4_Witness ==
  /\ Len(issued) >= 2
  /\ issued[1] \notin DOMAIN tracks
  /\ issued[Len(issued)] \in DOMAIN tracks
  /\ last.op = "step"

\* C5: the track ids of the bindings returned by one update call are pairwise
\* distinct (a track is bound to at most one detection per call).
C5_BindingsDistinct ==
  \A i, j \in 1..Len(parsed) : i # j => parsed[i].track_id # parsed[j].track_id

\* C6: when a detection is within the threshold of two unmatched tracks, one
\* nearer than the other, the farther one is neither bound nor modified by that
\* step; and the detection is bound to the track nearer than every other.
C6_NearerTrackWins ==
  last.op = "step" =>
    \A t1, t2 \in PreUnmatched :
      (/\ t1 # t2
       /\ PreDist(t1) < PreDist(t2)
       /\ PreDist(t2) <= Thr2x4(max_dist))
      => /\ BoundId # t2
         /\ tracks[t2] = last.tracks[t2]
         /\ t2 \notin used_ids
         /\ (\A o \in PreUnmatched \ {t1} : PreDist(t1) < PreDist(o))
              => /\ BoundId = t1
                 /\ tracks[t1].centroid = last.centroid

C6_Witness ==
  /\ last.op = "step"
  /\ \E t1, t2 \in PreUnmatched :
       /\ DOMAIN last.tracks = {t1, t2}
       /\ t1 > t2
       /\ PreDist(t1) < PreDist(t2)
       /\ PreDist(t2) <= Thr2x4(max_dist)
       /\ BoundId = t1

\* C7: a detection farther than the threshold from every existing track is
\* never bound to an existing track; it creates a new track with a fresh id.
C7_FarDetectionCreates ==
  (/\ last.op = "step"
   /\ \A tid \in DOMAIN last.tracks : PreDist(tid) > Thr2x4(max_dist))
  => /\ BoundId \notin DOMAIN last.tracks
     /\ BoundId > last.id_counter
     /\ \A i \in 1..(Len(issued) - 1) : issued[i] # BoundId
     /\ BoundId \in DOMAIN tracks
     /\ \A tid \in DOMAIN last.tracks : tracks[tid] = last.tracks[tid]

C7_Witness ==
  /\ last.op = "step"
  /\ DOMAIN last.tracks # {}
  /\ \A tid \in DOMAIN last.tracks : PreDist(tid) > Thr2x4(max_dist)
  /\ BoundId = last.id_counter + 1

\* Frames 1..k each carried one detection and have returned.
SingleFrames(k) ==
  \A j \in 1..k : frames[j].done /\ Len(frames[j].ids) = 1

\* centroids (100,100), (110,105), (250,250) on a fresh store, the first track
\* not removed before the second frame.
ExampleFrames ==
  /\ Len(frames) >= 3
  /\ SingleFrames(3)
  /\ frames[1].cents[1] = <<200, 200>>
  /\ frames[2].cents[1] = <<220, 210>>
  /\ frames[3].cents[1] = <<500, 500>>
  /\ frames[1].pre_counter = 0
  /\ frames[1].ids[1] \in DOMAIN frames[2].pre

ExampleIds ==
  ExampleFrames =>
    <<frames[1].ids[1], frames[2].ids[1], frames[3].ids[1]>> = <<1, 1, 2>>

\* C8 as stated: in a sequence of one-detection frames, the previous frame's
\* track not removed in between, the detection keeps that track's id when it is
\* within the threshold of its last centroid and otherwise gets the next fresh
\* id; (100,100), (110,105), (250,250) yield [1, 1, 2].
C8_Original ==
  /\ \A k \in 2..Len(frames) :
       (SingleFrames(k) /\ frames[k - 1].ids[1] \in DOMAIN frames[k].pre) =>
         LET p == frames[k - 1].ids[1]
             c == frames[k].cents[1]
         IN  IF Dist2x4(c, frames[k].pre[p]) < Thr2x4(max_dist)
             THEN frames[k].ids[1] = p
             ELSE frames[k].ids[1] = frames[k].pre_counter + 1
  /\ ExampleIds

\* C8 amended: the detection keeps the previous frame's track id when it is
\* closer than the threshold to that track and closer to it than to every other
\* track of the store; it gets the next fresh id when it is at the threshold or
\* farther from every track of the store; the example yields [1, 1, 2].
C8_Amended ==
  /\ \A k \in 2..Len(frames) :
       (SingleFrames(k) /\ frames[k - 1].ids[1] \in DOMAIN frames[k].pre) =>
         LET p   == frames[k - 1].ids[1]
             c   == frames[k].cents[1]
             pre == frames[k].pre
         IN  /\ (/\ Dist2x4(c, pre[p]) < Thr2x4(max_dist)
                 /\ \A o \in DOMAIN pre \ {p} : Dist2x4(c, pre[p]) < Dist2x4(c, pre[o]))
                => frames[k].ids[1] = p
             /\ (\A o \in DOMAIN pre : Dist2x4(c, pre[o]) >= Thr2x4(max_dist))
                => frames[k].ids[1] = frames[k].pre_counter + 1
  /\ ExampleIds

C8_Witness == ExampleFrames /\ pc = "idle"

\* C9: prune_stale removes exactly the tracks with now - last_seen greater than
\* the timeout the store was configured with, and changes nothing else.
C9_PruneByConfiguredTimeout ==
  last.op = "prune" =>
    /\ tracks = Restrict(last.tracks,
                         {tid \in DOMAIN last.tracks :
                            ~((last.now - last.tracks[tid].last_seen) > max_inactive)})
    /\ id_counter = last.id_counter

\* ------------------------------------------------------------------
\* Properties of one track's embedding history (SpecTrack)
\* ------------------------------------------------------------------
Min(a, b) == IF a < b THEN a ELSE b

\* Sum, in coordinate d, of the last m entries of the sequence q.
RECURSIVE SumOfLast(_, _, _)
SumOfLast(q, m, d) ==
  IF m = 0 THEN 0 ELSE q[Len(q)][d] + SumOfLast(SubSeq(q, 1, Len(q) - 1), m - 1, d)

\* C10: for a track that received k embeddings, avg_embedding is the
\* element-wise mean of exactly the last min(5, k) of them.
C10_AvgOfLastN ==
  avg_at = Len(appended) =>
    LET k == Len(appended)
        m == Min(5, k)
    IN  /\ avg_out.n = m
        /\ \A d \in EmbDim : avg_out.sum[d] = SumOfLast(appended, m, d)

\* After 10 updates, the first embeddings all <<1,0>> and the last five all
\* <<0,1>>: the mean is <<0,1>>, nothing of the older ones contributes.
C10_Witness ==
  /\ Len(appended) = 11
  /\ avg_at = 11
  /\ \A i \in 1..6 : appended[i] = <<1, 0>>
  /\ \A i \in 7..11 : appended[i] = <<0, 1>>
  /\ avg_out = [sum |-> <<0, 5>>, n |-> 5]

\* C11: the embedding history of a track holds between 1 and FACE_TRACK_HISTORY
\* embeddings, and they are the most recent ones the track was given, oldest
\* first: an append to a full history has dropped the oldest entry.
C11_HistoryIsRecentSuffix ==
  LET h == one_track[1].embedding_history
      k == Len(appended)
      m == Min(FACE_TRACK_HISTORY, k)
  IN  /\ 1 <= Len(h) /\ Len(h) <= FACE_TRACK_HISTORY
      /\ Len(h) = m
      /\ \A i \in 1..m : h[i] = appended[k - m + i]

\* Seven embeddings went to the track; the history is the last five of them,
\* in the order they came, and the two oldest are gone.
C11_Witness ==
  /\ appended = << <<1, 0>>, <<1, 0>>, <<0, 1>>, <<1, 0>>, <<0, 1>>, <<0, 1>>, <<1, 0>> >>
  /\ one_track[1].embedding_history =
       << <<0, 1>>, <<1, 0>>, <<0, 1>>, <<0, 1>>, <<1, 0>> >>

\* ------------------------------------------------------------------
\* Properties of the stream workers (SpecSched, SpecGate, SpecRace)
\* ------------------------------------------------------------------

\* C1: for every source, at most one inference job (detector run, track
\* update, recognition, gating) is in flight at any time, whatever the order
\* of loop rounds, job completions, session starts and stops and index reloads.
C1_OneJobInFlight ==
  \A c \in Sources : Cardinality(InFlight(c)) <= 1

\* A second session of a source runs an inference job after the thread of its
\* first session has ended.
C1_Witness ==
  \E t \in DOMAIN thr :
    /\ t > 1
    /\ thr[t].pc \in InferencePcs
    /\ thr[1].pc = "exited"
    /\ thr[t].client = thr[1].client

\* The cooldown of an effect kind: LOG_COOLDOWN_S for the activity log
\* (watchdog_indexer.py:221), the TTL of the alert lock (video_worker.py:200).
CooldownOf(kind) == IF kind = "log" THEN LOG_COOLDOWN_S ELSE ALERT_LOCK_TTL_S

\* C2: a gated call for (kind, identity, source) executes the effect exactly
\* when no execution of that effect lies less than the TTL before it: calls
\* within the TTL of an execution do nothing, the first call after the TTL
\* has expired executes the effect again.
C2_OncePerTtlThenAgain ==
  (last_gate.kind # "none" /\ ~last_gate.failed) =>
    (last_gate.ran <=>
       \/ last_gate.prev < 0
       \/ last_gate.t - last_gate.prev >= CooldownOf(last_gate.kind))

\* C3: under every interleaving of the run loops of the running sources, no
\* two threads are at once between finding a lock key absent and setting it,
\* and two executions of one gated effect for one (identity, source) lie at
\* least a cooldown apart.
C3_OncePerWindow ==
  /\ \A t1, t2 \in DOMAIN thr :
       t1 # t2 => HeldKeys(thr[t1]) \cap HeldKeys(thr[t2]) = {}
  /\ \A key \in DOMAIN effects :
       effects[key].prev >= 0 =>
         effects[key].last - effects[key].prev >= CooldownOf(key[1])

\* Two threads gate the same identity at the same time, each past the check
\* of its own lock, and an effect has already been executed a second time.
C3_Witness ==
  /\ \E t1, t2 \in DOMAIN thr :
       /\ t1 # t2
       /\ HeldKeys(thr[t1]) # {}
       /\ HeldKeys(thr[t2]) # {}
       /\ thr[t1].face.meta = thr[t2].face.meta
  /\ \E key \in DOMAIN effects : effects[key].prev >= 0

\* ------------------------------------------------------------------
\* Properties of the identity registry (SpecIndex)
\* ------------------------------------------------------------------

\* C12: a query that runs while the registry is rebuilt observes one complete
\* snapshot: the index it searched and the mapping it read were written by the
\* same rebuild, and it does not fail on a half-replaced snapshot.
C12_QuerySeesOneSnapshot ==
  qry.pc = "done" =>
    /\ qry.out # "raised"
    /\ (qry.igen >= 0 /\ qry.mgen >= 0) => qry.igen = qry.mgen

SameDirection(a, b) ==
  /\ a[1] * b[2] = a[2] * b[1]
  /\ (Dot(a, a) = 0) = (Dot(b, b) = 0)

\* What a query answers when the profiles in docs are the registry: the
\* profile along the query's direction nearest to it, if above the threshold.
AnswerFrom(docs, q, pct) ==
  IF docs = <<>> THEN NoMeta ELSE RecognizeFace(Snapshot(docs), q, pct)

C15_FailedRebuildKeepsSnapshot ==
  (gui.pc = "idle" /\ gui.outcome \in {"unreachable", "read_failed"}) =>
    /\ faiss = gui.before.faiss
    /\ (qry.pc = "done" /\ qry.after = nops) =>
         /\ qry.out # "raised"
         /\ qry.meta = RecognizeFace(gui.before.faiss, qry.q, qry.pct)

\* delete_profile removed Ann from the store, the read of its rebuild failed:
\* the snapshot still has both rows and a query made afterwards still finds Ann.
C15_Witness ==
  /\ gui.pc = "idle" /\ gui.op = "delete" /\ gui.outcome = "read_failed"
  /\ Len(profiles) = 1
  /\ profiles[1].aadhar = "2222"
  /\ Len(faiss.mapping) = 2
  /\ qry.pc = "done" /\ qry.after = nops
  /\ qry.out = "match"
  /\ qry.meta.aadhar = "1111"

\* C16: once a rebuild has read an empty collection, the index and the mapping
\* are empty, and as long as no later rebuild has replaced them a query made
\* then returns no match, whatever its embedding and its threshold.
C16_EmptyStoreMatchesNobody ==
  (gen.mapping > 0 /\ gen.index = gen.mapping /\ gen.docs = <<>>) =>
    /\ faiss = EmptySnapshot
    /\ (gui.pc = "idle" /\ qry.pc = "done" /\ qry.after = nops) =>
         (qry.out = "none" /\ qry.meta = NoMeta)

\* The last profile was deleted; a query with a threshold below zero, which
\* any row would pass, made after the rebuild finds nobody.
C16_Witness ==
  /\ gui.pc = "idle" /\ gui.op = "delete" /\ gui.outcome = "ok"
  /\ gen.docs = <<>>
  /\ gen.index > 0
  /\ qry.pc = "done" /\ qry.after = nops
  /\ qry.pct < 0
  /\ qry.out = "none"

\* ------------------------------------------------------------------
\* Properties of recognize_face (SpecQuery)
\* ------------------------------------------------------------------
\* ||v||^2, 1 for the zero vector (whose similarity with anything is 0)
Norm2(v) == IF Dot(v, v) = 0 THEN 1 ELSE Dot(v, v)

\* cos(q, e) > pct / 100, = pct / 100, and cos(q, a) > cos(q, b), in integers
CosAbove(q, e, pct) ==
  pct < 0 \/ Dot(q, e) * Dot(q, e) * 10000 > pct * pct * Norm2(q) * Norm2(e)

CosEquals(q, e, pct) ==
  pct >= 0 /\ Dot(q, e) * Dot(q, e) * 10000 = pct * pct * Norm2(q) * Norm2(e)

Closer(q, a, b) ==
  Dot(q, a) * Dot(q, a) * Norm2(b) > Dot(q, b) * Dot(q, b) * Norm2(a)

\* C17 as stated: a query equal, after normalisation, to a stored reference
\* returns that reference's metadata; a query orthogonal to every stored
\* reference returns none for every threshold above 0.
C17_Original ==
  qry.pc = "done" =>
    /\ \A i \in 1..Len(profiles) :
         SameDirection(qry.q, profiles[i].embedding) =>
           (qry.out = "match" /\ qry.meta = MetaOf(profiles[i]))
    /\ ((\A i \in 1..Len(profiles) : Dot(qry.q, profiles[i].embedding) = 0) /\ qry.pct > 0) =>
         qry.out = "none"

\* C17, amended: for every threshold below 1.0, a query equal, after
\* normalisation, to a stored reference returns the metadata of a stored
\* reference of that very direction; a query orthogonal to every stored
\* reference returns none for every threshold above 0.
C17_Amended ==
  qry.pc = "done" =>
    /\ ((\E i \in 1..Len(profiles) : SameDirection(qry.q, profiles[i].embedding))
        /\ qry.pct < 100) =>
         /\ qry.out = "match"
         /\ \E i \in 1..Len(profiles) :
              /\ SameDirection(qry.q, profiles[i].embedding)
              /\ qry.meta = MetaOf(profiles[i])
    /\ ((\A i \in 1..Len(profiles) : Dot(qry.q, profiles[i].embedding) = 0) /\ qry.pct > 0) =>
         qry.out = "none"

\* The query <<2, 0>> against references <<3, 4>>, <<1, 0>>, <<0, 1>> at
\* threshold 0.80 returns the second profile, whose direction it has.
C17_Witness ==
  /\ qry.pc = "done"
  /\ qry.q = <<2, 0>> /\ qry.pct = 80
  /\ Len(profiles) = 3
  /\ profiles[1].embedding = <<3, 4>>
  /\ profiles[2].embedding = <<1, 0>>
  /\ profiles[3].embedding = <<0, 1>>
  /\ qry.out = "match"
  /\ qry.meta = P2

\* C18: a query returns a profile only when that profile is a nearest
\* neighbour of the query and its similarity is strictly above the threshold;
\* when the best similarity equals the threshold, or is below it, the query
\* returns none; a profile that is only second best is never returned.
C18_StrictlyAboveNearestOnly ==
  qry.pc = "done" =>
    /\ qry.out # "raised"
    /\ qry.out = "match" =>
         \E i \in 1..Len(profiles) :
           /\ qry.meta = MetaOf(profiles[i])
           /\ CosAbove(qry.q, profiles[i].embedding, qry.pct)
           /\ \A j \in 1..Len(profiles) :
                ~Closer(qry.q, profiles[j].embedding, profiles[i].embedding)
    /\ (\A i \in 1..Len(profiles) : ~CosAbove(qry.q, profiles[i].embedding, qry.pct)) =>
         (qry.out = "none" /\ qry.meta = NoMeta)
    /\ (\E i \in 1..Len(profiles) : CosAbove(qry.q, profiles[i].embedding, qry.pct)) =>
         qry.out = "match"

\* The query <<3, 4>> against <<1, 0>> (0.6), <<0, 1>> (0.8), <<1, 0>> at
\* threshold 0.80: the best similarity equals the threshold and the answer is
\* none, though nothing else is returned in its place.
C18_Witness ==
  /\ qry.pc = "done"
  /\ qry.q = <<3, 4>> /\ qry.pct = 80
  /\ Len(profiles) = 3
  /\ profiles[1].embedding = <<1, 0>>
  /\ profiles[2].embedding = <<0, 1>>
  /\ CosEquals(qry.q, profiles[2].embedding, qry.pct)
  /\ qry.out = "none"

\* C19: enroll_face on an image in which the detector finds no face, or more
\* than one, ends at once with a ValueError; the store and the snapshot are
\* what they were when it was called.
C19_BadImageChangesNothing ==
  (gui.op = "enroll" /\ gui.faces # 1) =>
    /\ gui.pc = "idle"
    /\ gui.outcome = "ValueError"
    /\ profiles = gui.before.profiles
    /\ faiss = gui.before.faiss

\* After one successful enrolment, an enrolment with an image of two faces
\* has been refused: the registry still holds the one profile.
C19_Witness ==
  /\ gui.op = "enroll" /\ gui.faces = 2 /\ gui.outcome = "ValueError"
  /\ nops = 2
  /\ Len(profiles) = 1
  /\ Len(faiss.mapping) = 1
  /\ gen.mapping = 1

\* ------------------------------------------------------------------
\* Frame delivery against inference (SpecSched)
\* ------------------------------------------------------------------
\* Where the run loop can deliver a frame next: at its top, waiting for the
\* next frame, or in the drawing phase that ends with frame_ready.emit.
DeliveryPcs == {"top", "draw"}

\* C20: while an inference job of a source is running, the frame-delivery
\* loop of that source is not held up by it: some running loop of the source
\* is at a statement from which it delivers the next frame.
C20_DeliveryNotBlockedByInference ==
  \A c \in Sources :
    InFlight(c) # {} =>
      \E t \in DOMAIN thr :
        /\ thr[t].client = c
        /\ thr[t].running
        /\ thr[t].pc \in DeliveryPcs

\* ------------------------------------------------------------------
\* The latest-results slot (SpecCycle)
\* ------------------------------------------------------------------

\* C21: the latest-results slot of a processor (last_faces) is empty or holds
\* one render record for every face the detector returned to one finished
\* inference cycle, in the detector's order, whatever the order in which the
\* run loop, the job and reload_index take their steps; it never holds the
\* first records only of a cycle that is still going through its faces.
C21_SlotHoldsCompleteResults ==
  \A t \in DOMAIN thr :
    \/ thr[t].last_faces = <<>>
    \/ /\ Len(thr[t].last_faces) = Len(thr[t].complete)
       /\ \A i \in 1..Len(thr[t].complete) :
            thr[t].last_faces[i].bbox = thr[t].complete[i]

\* A cycle over two faces has recorded the first and not the second, while
\* the slot still holds the one-face result of the cycle before it.
C21_Witness ==
  \E t \in DOMAIN thr :
    /\ thr[t].pc \in InferencePcs
    /\ Len(thr[t].detected) = 2
    /\ Len(thr[t].parsed_faces) = 1
    /\ Len(thr[t].faces) = 1
    /\ Len(thr[t].last_faces) = 1
    /\ Len(thr[t].complete) = 1

\* ------------------------------------------------------------------
\* The ticks of the run loop (SpecCycle)
\* ------------------------------------------------------------------

\* C27: a round of the run loop starts an inference job only when it is the
\* fourth tick since the last one that did (or since the start) and no job of
\* the source is in flight; a tick that starts no job leaves the slot as it
\* is, draws the records the slot holds and leaves nothing behind for a later
\* job to pick up.
C27_JobOnEveryFourthTick ==
  [][\A t \in DOMAIN thr :
       /\ (thr[t].pc = "top" /\ thr'[t].pc = "detect") =>
            /\ (thr[t].frame_count + 1) % 4 = 0
            /\ InFlight(thr[t].client) = {}
       /\ (thr[t].pc = "top" /\ thr'[t].pc = "top"
           /\ thr'[t].frame_count # thr[t].frame_count) =>
            /\ thr'[t].last_faces = thr[t].last_faces
            /\ thr'[t].rendered = thr[t].last_faces
            /\ thr'[t].faces = <<>>
            /\ thr'[t].parsed_faces = <<>>]_vars

\* The second tick after a job over two faces: the slot holds the job's two
\* records and the tick has drawn them again.
C27_Witness ==
  \E t \in DOMAIN thr :
    /\ thr[t].pc = "top"
    /\ thr[t].frame_count = 2
    /\ Len(thr[t].complete) = 2
    /\ Len(thr[t].last_faces) = 2
    /\ thr[t].rendered = thr[t].last_faces

\* C28: stale tracks are removed once per inference cycle, after the cycle has
\* updated its tracks and before it publishes: a tick that runs no inference
\* removes no track, and the part of a tick before the detector runs removes
\* none either.
C28_PruneOncePerCycle ==
  [][\A t \in DOMAIN thr :
       /\ (thr[t].pc = "top" /\ thr'[t].pc = "top"
           /\ thr'[t].frame_count # thr[t].frame_count) =>
            thr'[t].tracks = thr[t].tracks
       /\ (thr[t].pc = "top" /\ thr'[t].pc = "detect") =>
            thr'[t].tracks = thr[t].tracks]_vars

\* ------------------------------------------------------------------
\* Failures inside the run loop (SpecFault)
\* ------------------------------------------------------------------
\* The statements of the run loop: a thread at one of them is still serving
\* its source.
LoopPcs == {"top", "draw"} \cup InferencePcs

\* C22: when the detector or the index query of an inference cycle has raised,
\* the error has been taken at the job boundary: the thread is still in its
\* loop, at the next tick or on its way there, and not ended by the error.
C22_InferenceErrorIsCaught ==
  \A t \in DOMAIN thr :
    thr[t].exc \in {"detector", "index"} => thr[t].pc \in LoopPcs

\* C23: when a call to the key-value store has failed (the frame read, the
\* face cache, a lock, the alert publish), the thread is still in its loop:
\* the side effect is skipped and the pipeline of the source goes on.
C23_StoreErrorIsNotFatal ==
  \A t \in DOMAIN thr :
    thr[t].exc = "redis" => thr[t].pc \in LoopPcs

\* ------------------------------------------------------------------
\* The index-updated signal (SpecIndex, SpecReload)
\* ------------------------------------------------------------------

\* C25: a call of enroll_face, update_profile or delete_profile whose rebuild
\* went through does not return to the event loop before faiss_updated has
\* been emitted, and the emission has run reload_index of every session's
\* processor.
C25_RebuildIsAnnounced ==
  [][(/\ gui.pc # "idle"
      /\ gui'.pc = "idle"
      /\ gui'.outcome = "ok"
      /\ gui'.op \in {"enroll", "update", "delete"}) =>
       /\ gui.pc = "notify"
       /\ \A c \in DOMAIN active_sessions :
            thr'[active_sessions[c]].last_faces = <<>>]_vars

\* ------------------------------------------------------------------
\* After the index-updated signal (SpecReload)
\* ------------------------------------------------------------------
\* A name and threat level the snapshot in force gives to somebody, or the
\* "Unknown" / "Low" of a face it gives to nobody.
InSnapshot(name, threat) ==
  \/ name = NoMeta.name /\ threat = NoMeta.threat_level
  \/ \E i \in DOMAIN faiss.mapping :
       faiss.mapping[i].name = name /\ faiss.mapping[i].threat_level = threat

\* The processor has handled the signal of the latest rebuild, and no other
\* rebuild has begun.
HeardLatest(th) == gui.pc = "idle" /\ th.heard > 0 /\ th.heard = gen.mapping

\* C24: once a scheduler has handled the notification of the latest rebuild,
\* what its latest-results slot holds for display is a name and a threat level
\* of the rebuilt snapshot, and a cycle begun after the notification gives a
\* face an identity of the rebuilt snapshot, not one a cache entry kept from
\* before.
C24_ReloadForcesFreshIdentities ==
  \A c \in DOMAIN active_sessions :
    LET th == thr[active_sessions[c]]
    IN  HeardLatest(th) =>
          /\ \A i \in DOMAIN th.last_faces :
               InSnapshot(th.last_faces[i].name, th.last_faces[i].threat)
          /\ (th.cycle_of = th.heard /\ th.pc \in InferencePcs \ {"detect", "face"}) =>
               InSnapshot(th.face.meta.name, th.face.meta.threat_level)

\* ------------------------------------------------------------------
\* Stopping a pipeline (SpecStop)
\* ------------------------------------------------------------------
\* C26: when stop() of a processor returns, its run loop has exited, its
\* tracks are empty, and the drawing phase has not run for a job that was in
\* flight when stop() was called.
C26_StopLeavesNothingBehind ==
  [][(gui_wait # 0 /\ gui_wait' = 0) =>
       /\ thr[gui_wait].pc = "exited"
       /\ thr[gui_wait].tracks = <<>>
       /\ thr[gui_wait].stop # "drawn"]_vars

\* ------------------------------------------------------------------
\* What a cooldown lock blocks (SpecLock)
\* ------------------------------------------------------------------
\* The longest a call can be blocked after an execution of its effect: the
\* alert lock; for the log, the cooldown key and then the log lock set by the
\* call the cooldown key blocked.
BlockedFor(kind) ==
  IF kind = "log" THEN LOG_COOLDOWN_S + LOG_LOCK_TTL_S ELSE ALERT_LOCK_TTL_S

\* C29: a gated call that finds a lock and does nothing is a call for an
\* (effect kind, identity, source) whose effect has been executed, and no
\* longer ago than its locks last: the lock of another identity, of another
\* source or of another kind of effect blocks nothing.
C29_LockBlocksOwnTripleOnly ==
  (last_gate.kind # "none" /\ ~last_gate.ran /\ ~last_gate.failed) =>
    /\ last_gate.prev >= 0
    /\ last_gate.t - last_gate.prev < BlockedFor(last_gate.kind)

\* ------------------------------------------------------------------
\* Two rebuilds at once (SpecMutate)
\* ------------------------------------------------------------------
\* C30: once the enrolment of the worker thread and the operation of the GUI
\* thread have both returned, the snapshot is the one built from the profile
\* store as it is: no rebuild that read the store earlier has written over the
\* snapshot of a rebuild that read it later.
C30_ConcurrentRebuildsConverge ==
  (gui.pc = "idle" /\ enr.pc = "idle") => faiss = Snapshot(profiles)

\* ------------------------------------------------------------------
\* A cycle in progress when the signal arrives (SpecReload)
\* ------------------------------------------------------------------
\* C31: a cycle that was already running when reload_index handled the
\* index-updated signal, and whose result list holds a name or threat level
\* the rebuilt snapshot no longer has, does not publish that list afterwards:
\* the slot reload_index emptied is still empty when the cycle is over.
C31_ClearingIsNotUndone ==
  [][\A t \in DOMAIN thr :
       (/\ thr[t].pc = "face" /\ thr'[t].pc = "draw"
        /\ thr[t].cycle_of < thr[t].heard
        /\ \E i \in DOMAIN thr[t].parsed_faces :
             ~InSnapshot(thr[t].parsed_faces[i].name, thr[t].parsed_faces[i].threat)) =>
          thr'[t].last_faces = <<>>]_vars

\* ------------------------------------------------------------------
\* Stale tracks (SpecStore)
\* ------------------------------------------------------------------
\* C32: update never matches a track that is stale when the detection is
\* processed: the step leaves every such track as it was, for prune_stale to
\* remove.
C32_StaleIsNeverMatched ==
  last.op = "step" =>
    \A tid \in DOMAIN last.tracks :
      IsStale(last.tracks[tid], last.now) =>
        (tid \in DOMAIN tracks /\ tracks[tid] = last.tracks[tid])

\* ------------------------------------------------------------------
\* What one detection changes (SpecStore)
\* ------------------------------------------------------------------
\* The tracks an update step has created, removed or altered.
TouchedBy(before, after) ==
  {tid \in DOMAIN before \cup DOMAIN after :
     \/ tid \notin DOMAIN before
     \/ tid \notin DOMAIN after
     \/ before[tid] # after[tid]}

\* C37: the processing of one detection touches at most one track, the one
\* it matched or the one it created, and removes none; every other track keeps
\* its centroid, last-seen time, embedding history and smoothed box; the id
\* counter moves exactly when a track is created, and then to that track's id.
C37_OneDetectionOneTrack ==
  last.op = "step" =>
    /\ Cardinality(TouchedBy(last.tracks, tracks)) <= 1
    /\ DOMAIN last.tracks \subseteq DOMAIN tracks
    /\ (id_counter # last.id_counter) <=> (DOMAIN tracks # DOMAIN last.tracks)
    /\ (id_counter # last.id_counter) => DOMAIN tracks \ DOMAIN last.tracks = {id_counter}

\* A detection has been matched to one of two tracks: that track has changed
\* and the other one has not.
C37_Witness ==
  /\ last.op = "step"
  /\ Cardinality(DOMAIN last.tracks) = 2
  /\ id_counter = last.id_counter
  /\ Cardinality(TouchedBy(last.tracks, tracks)) = 1

\* ------------------------------------------------------------------
\* Two tracks at the same distance (SpecFrames)
\* ------------------------------------------------------------------
\* The unused tracks of `rec` nearest to its detection, when that distance is
\* below the threshold.
NearestUnused(rec, md) ==
  LET cand == Candidates(rec.tracks, rec.used_ids, rec.centroid, md)
  IN  {tid \in cand :
         \A o \in cand :
           Dist2x4(rec.centroid, rec.tracks[tid].centroid)
             <= Dist2x4(rec.centroid, rec.tracks[o].centroid)}

\* C38: when two or more unused tracks are at the same distance from a
\* detection, below the threshold and nearer than every other unused track,
\* the detection is bound to the one of them created first (the lowest id,
\* the first in the dict's order), and the others are left as they were.
C38_TieGoesToEarlierTrack ==
  (last.op = "step" /\ Cardinality(NearestUnused(last, max_dist)) >= 2) =>
    \E a \in NearestUnused(last, max_dist) :
      /\ \A b \in NearestUnused(last, max_dist) : a <= b
      /\ parsed[Len(parsed)].track_id = a
      /\ tracks[a].centroid = last.centroid
      /\ \A b \in NearestUnused(last, max_dist) \ {a} : tracks[b] = last.tracks[b]

\* A detection midway between tracks 1 and 2 has been bound to track 1.
C38_Witness ==
  /\ last.op = "step"
  /\ NearestUnused(last, max_dist) = {1, 2}
  /\ parsed[Len(parsed)].track_id = 1

\* ------------------------------------------------------------------
\* The recognition cache (SpecCache)
\* ------------------------------------------------------------------
\* What watchdog.recognize_face answers for the average embedding of the track
\* the head of `before.faces` is bound to, the detection appended
\* (video_worker.py:172-173), whether or not the job gets to ask.
DirectIdentity(before, after) ==
  LET face  == Head(before.faces)
      found == MatchedId(before.tracks, before.used_tracks,
                         Centroid2(ScaleBBox(face.bbox, <<1, 1>>)), WORKER_TRACK_RADIUS)
      id    == IF found # 0 THEN found ELSE before.track_id_counter + 1
  IN  RecognizeFace(faiss, AvgEmbedding(after.tracks[id].history).sum, RECOGNITION_PCT)

\* C33: with the index never rebuilt, the identity a recognition-cache hit
\* gives a detection is the identity the index would return, in the same cycle,
\* for the average embedding of the detection's track.
C33_CacheHitIsTheDirectAnswer ==
  [][\A t \in DOMAIN thr :
       (/\ thr[t].pc = "face" /\ thr'[t].pc = "log_gate"
        /\ Exists(redis, FaceCacheKey(Head(thr[t].faces).embedding), clock)) =>
          thr'[t].face.meta = DirectIdentity(thr[t], thr'[t])]_vars

\* ------------------------------------------------------------------
\* A failed activity record (SpecRace)
\* ------------------------------------------------------------------
\* C36: when the gated log call of an (identity, source) has ended with the
\* insert of the activity record failing, no lock of that pair is set: neither
\* the log lock of the worker nor the cooldown key of log_activity, so that
\* the next inference cycle tries again.
C36_FailedLogLeavesNoLock ==
  (last_gate.kind = "log" /\ last_gate.failed) =>
    /\ ~Exists(redis, LogLockKey(last_gate.who, last_gate.source), clock)
    /\ ~Exists(redis, CooldownKey(last_gate.who, last_gate.source), clock)

\* ------------------------------------------------------------------
\* Who causes an alert (SpecAlert)
\* ------------------------------------------------------------------
\* The rows of the index snapshot classified High.
HighIdentities == {faiss.mapping[i] : i \in {j \in DOMAIN faiss.mapping :
                                               faiss.mapping[j].threat_level = "High"}}

WentInactive(t) == thr[t].running /\ thr[t].is_active /\ ~thr'[t].is_active

\* C35: a processor goes from active to inactive only in a round that finds
\* no frame under its source's key more than 1.5 s after the last frame it
\* read; in that step it drops all its tracks and emits stream_inactive for its
\* source once, and stream_inactive is emitted in no other step.  An inactive
\* processor holds no track, and a track a processor creates has an id above
\* every id it has issued before, so that a face seen after the gap is bound
\* to no track, and to no track id, from before the gap.
C35_InactiveOncePerGap ==
  [][/\ \A t \in DOMAIN thr :
          /\ WentInactive(t) =>
               /\ ~Exists(redis, FrameKey(thr[t].client), clock)
               /\ 2 * (clock - thr[t].last_frame_time) > INACTIVE_AFTER_HALF_S
               /\ thr'[t].tracks = <<>>
               /\ inactive_q' = Append(inactive_q, thr[t].client)
          /\ ~thr'[t].is_active => thr'[t].tracks = <<>>
          /\ thr[t].pc # "exited" =>
               /\ thr'[t].track_id_counter >= thr[t].track_id_counter
               /\ \A tid \in DOMAIN thr'[t].tracks \ DOMAIN thr[t].tracks :
                    tid > thr[t].track_id_counter
     /\ Len(inactive_q') > Len(inactive_q) => \E t \in DOMAIN thr : WentInactive(t)]_vars

\* The one processor has gone inactive once, the notification is still queued,
\* and the processor, active again, has bound the face it sees now to track 2.
C35_Witness ==
  /\ Len(thr) = 1
  /\ inactive_q = <<"camA">>
  /\ thr[1].is_active
  /\ thr[1].track_id_counter = 2
  /\ DOMAIN thr[1].tracks = {2}

\* ------------------------------------------------------------------
\* stop() ends the frame loop (SpecLive)
\* ------------------------------------------------------------------
\* C39: once stop() has cleared the running flag of a processor, its run loop
\* ends: whatever statement the thread is at, whatever its source's key holds
\* (a frame, bytes that do not decode, bytes the decoder raises on, nothing),
\* every call it makes returning, the thread gets back to `while self.running`
\* and leaves run().
C39_StopEndsTheLoop ==
  \A t \in LiveThreads :
    (t \in DOMAIN thr /\ ~thr[t].running) ~> (t \in DOMAIN thr /\ thr[t].pc = "exited")

\* stop() is waiting for a thread that has left its loop while its source's
\* key holds bytes the decoder raises on.
C39_Witness ==
  /\ gui_wait # 0
  /\ ~thr[gui_wait].running
  /\ thr[gui_wait].pc = "exited"
  /\ Exists(redis, FrameKey(thr[gui_wait].client), clock)
  /\ redis[FrameKey(thr[gui_wait].client)].val = "raise"
====
